---- MODULE Spec2Model ----
(***************************************************************************)
(* A model of the etcd v2 client's key-value pipeline: one call of a       *)
(* key-value API function (src/src/kv.rs) on a client with an ordered      *)
(* endpoint list, dispatched by first_ok (src/src/first_ok.rs) over the    *)
(* HTTP transport (src/src/http.rs).                                       *)
(*                                                                         *)
(* The environment is the cluster: it decides, per endpoint attempt,       *)
(* whether the request URL can be built, whether the transport fails, and  *)
(* which status, headers and body come back.                               *)
(***************************************************************************)
EXTENDS Integers, Sequences, FiniteSets, TLC

\* The largest number of configured endpoints explored.
MaxEndpoints == 4

-----------------------------------------------------------------------------
(* Rust's Option<T>: None is the empty sequence, Some(x) the one-element   *)
(* sequence.                                                               *)

None == <<>>

Some(x) == <<x>>

is_some(o) == o # <<>>

is_none(o) == o = <<>>

unwrap(o) == o[1]

-----------------------------------------------------------------------------
(* Inputs of the API functions.                                            *)

Keys == {"/foo"}

Values == {"x"}

Ttls == {None, Some(5)}

CurrentValues == {None, Some("y")}

ModifiedIndexes == {None, Some(7)}

-----------------------------------------------------------------------------
(* Formatting.                                                             *)

Digits == <<"0", "1", "2", "3", "4", "5", "6", "7", "8", "9">>

RECURSIVE u64_to_string(_)
u64_to_string(n) ==
    IF n < 10 THEN Digits[n + 1]
    ELSE u64_to_string(n \div 10) \o Digits[(n % 10) + 1]

bool_to_string(b) == IF b THEN "true" ELSE "false"

\* The base URI of cluster member i.
Member(i) == "http://etcd" \o u64_to_string(i) \o ":2379/"

\* The endpoint lists a client may be configured with: none, or the members
\* 1..n in ascending or descending order.
EndpointLists ==
    UNION { { [i \in 1..n |-> Member(i)], [i \in 1..n |-> Member(n + 1 - i)] } :
            n \in 0..MaxEndpoints }

-----------------------------------------------------------------------------
(* Options (crate::options).                                               *)

ComparisonConditions(value, modified_index) ==
    [value |-> value, modified_index |-> modified_index]

is_empty(conditions) ==
    is_none(conditions.value) /\ is_none(conditions.modified_index)

DefaultSetOptions ==
    [conditions |-> None, create_in_order |-> FALSE, dir |-> None,
     prev_exist |-> None, ttl |-> None, value |-> None]

DefaultDeleteOptions ==
    [conditions |-> None, dir |-> None, recursive |-> None]

DefaultInternalGetOptions ==
    [recursive |-> FALSE, sort |-> None, strong_consistency |-> FALSE,
     wait |-> FALSE, wait_index |-> None]

-----------------------------------------------------------------------------
(* The public key-value functions: each only fills in the options of one   *)
(* of raw_get, raw_set and raw_delete.                                     *)

Call(api, raw, key, options) ==
    [api |-> api, raw |-> raw, key |-> key, options |-> options, timeout |-> None]

compare_and_delete(key, current_value, current_modified_index) ==
    Call("compare_and_delete", "raw_delete", key,
         [DefaultDeleteOptions EXCEPT
            !.conditions = Some(ComparisonConditions(current_value, current_modified_index))])

\* A swap that forgets what it was to compare.
compare_and_swap_unconditional(key, value, ttl, current_value, current_modified_index) ==
    Call("compare_and_swap", "raw_set", key,
         [DefaultSetOptions EXCEPT !.ttl = ttl, !.value = Some(value)])

compare_and_swap(key, value, ttl, current_value, current_modified_index) ==
    Call("compare_and_swap", "raw_set", key,
         [DefaultSetOptions EXCEPT
            !.conditions = Some(ComparisonConditions(current_value, current_modified_index)),
            !.ttl = ttl,
            !.value = Some(value)])

\* A create that does not say the key must be new.
create_unguarded(key, value, ttl) ==
    Call("create", "raw_set", key,
         [DefaultSetOptions EXCEPT !.ttl = ttl, !.value = Some(value)])

create(key, value, ttl) ==
    Call("create", "raw_set", key,
         [DefaultSetOptions EXCEPT
            !.prev_exist = Some(FALSE), !.ttl = ttl, !.value = Some(value)])

create_dir(key, ttl) ==
    Call("create_dir", "raw_set", key,
         [DefaultSetOptions EXCEPT
            !.dir = Some(TRUE), !.prev_exist = Some(FALSE), !.ttl = ttl])

create_in_order(key, value, ttl) ==
    Call("create_in_order", "raw_set", key,
         [DefaultSetOptions EXCEPT
            !.create_in_order = TRUE, !.ttl = ttl, !.value = Some(value)])

delete(key, recursive) ==
    Call("delete", "raw_delete", key,
         [DefaultDeleteOptions EXCEPT !.recursive = Some(recursive)])

delete_dir(key) ==
    Call("delete_dir", "raw_delete", key,
         [DefaultDeleteOptions EXCEPT !.dir = Some(TRUE)])

get(key, options) ==
    Call("get", "raw_get", key,
         [DefaultInternalGetOptions EXCEPT
            !.recursive = options.recursive,
            !.sort = Some(options.sort),
            !.strong_consistency = options.strong_consistency])

set(key, value, ttl) ==
    Call("set", "raw_set", key,
         [DefaultSetOptions EXCEPT !.ttl = ttl, !.value = Some(value)])

set_dir(key, ttl) ==
    Call("set_dir", "raw_set", key,
         [DefaultSetOptions EXCEPT !.dir = Some(TRUE), !.ttl = ttl])

update(key, value, ttl) ==
    Call("update", "raw_set", key,
         [DefaultSetOptions EXCEPT
            !.prev_exist = Some(TRUE), !.ttl = ttl, !.value = Some(value)])

update_dir(key, ttl) ==
    Call("update_dir", "raw_set", key,
         [DefaultSetOptions EXCEPT
            !.dir = Some(TRUE), !.prev_exist = Some(TRUE), !.ttl = ttl])

\* A watch that forgets the index it was given.
watch_from_now(key, options) ==
    [Call("watch", "raw_get", key,
          [DefaultInternalGetOptions EXCEPT !.recursive = options.recursive, !.wait = TRUE])
       EXCEPT !.timeout = options.timeout]

\* watch: raw_get with wait set, raced against a timer when a timeout is given.
watch(key, options) ==
    [Call("watch", "raw_get", key,
          [DefaultInternalGetOptions EXCEPT
             !.recursive = options.recursive,
             !.wait_index = options.index,
             !.wait = TRUE])
       EXCEPT !.timeout = options.timeout]

\* Watch timeouts, in milliseconds.
Durations == {None, Some(50)}

WatchOptionsSet ==
    { [index |-> i, recursive |-> FALSE, timeout |-> t] :
        i \in ModifiedIndexes, t \in Durations }

GetOptionsSet ==
    { [recursive |-> r, sort |-> FALSE, strong_consistency |-> s] : r, s \in BOOLEAN }

\* The calls explored.
Calls ==
    UNION { { compare_and_delete(k, cv, mi) : cv \in CurrentValues, mi \in ModifiedIndexes }
            \cup { delete(k, r) : r \in BOOLEAN }
            \cup { delete_dir(k) }
            \cup { get(k, o) : o \in GetOptionsSet }
            \cup { watch(k, o) : o \in WatchOptionsSet }
            \cup UNION { { compare_and_swap(k, v, None, cv, mi) :
                             cv \in CurrentValues, mi \in ModifiedIndexes }
                         \cup UNION { { create(k, v, ttl), create_in_order(k, v, ttl),
                                        set(k, v, ttl), update(k, v, ttl) } : ttl \in Ttls }
                         : v \in Values }
            \cup { create_dir(k, None), set_dir(k, None), update_dir(k, None) }
            : k \in Keys }

-----------------------------------------------------------------------------
(* The auth and members API.  In the call of one of these operations the    *)
(* key field holds the path given to build_url and the options field the   *)
(* value serialized into the request body, if there is one.                *)

RoleNames == {"ops"}

UserNames == {"al"}

MemberIds == {"m1"}

PeerUrlLists == {"http://peer:2380"}

\* serde_json::to_string of a Role, RoleUpdate, NewUser or UserUpdate that
\* holds nothing but its name.
name_to_string(name) == "{name:" \o name \o "}"

\* serde_json::to_string of PeerUrls.
peer_urls_to_string(peer_urls) == "{peerURLs:[" \o peer_urls \o "]}"

auth_create_role(role) ==
    Call("auth::create_role", "auth::create_role", "/roles/" \o role, Some(role))

auth_create_user(user) ==
    Call("auth::create_user", "auth::create_user", "/users/" \o user, Some(user))

auth_delete_role(name) ==
    Call("auth::delete_role", "auth::delete_role", "/roles/" \o name, None)

auth_delete_user(name) ==
    Call("auth::delete_user", "auth::delete_user", "/users/" \o name, None)

auth_disable == Call("auth::disable", "auth::disable", "/enable", None)

auth_enable == Call("auth::enable", "auth::enable", "/enable", None)

auth_get_role(name) == Call("auth::get_role", "auth::get_role", "/roles/" \o name, None)

auth_get_roles == Call("auth::get_roles", "auth::get_roles", "/roles", None)

auth_get_user(name) == Call("auth::get_user", "auth::get_user", "/users/" \o name, None)

auth_get_users == Call("auth::get_users", "auth::get_users", "/users", None)

auth_status == Call("auth::status", "auth::status", "/enable", None)

auth_update_role(role) ==
    Call("auth::update_role", "auth::update_role", "/roles/" \o role, Some(role))

auth_update_user(user) ==
    Call("auth::update_user", "auth::update_user", "/users/" \o user, Some(user))

members_add(peer_urls) == Call("members::add", "members::add", "", Some(peer_urls))

members_delete(id) == Call("members::delete", "members::delete", "/" \o id, None)

members_list == Call("members::list", "members::list", "", None)

members_update(id, peer_urls) ==
    Call("members::update", "members::update", "/" \o id, Some(peer_urls))

AuthCalls ==
    { auth_disable, auth_enable, auth_get_roles, auth_get_users, auth_status }
    \cup UNION { { auth_create_role(n), auth_delete_role(n), auth_get_role(n),
                    auth_update_role(n) } : n \in RoleNames }
    \cup UNION { { auth_create_user(n), auth_delete_user(n), auth_get_user(n),
                    auth_update_user(n) } : n \in UserNames }

MembersCalls ==
    { members_list }
    \cup { members_add(p) : p \in PeerUrlLists }
    \cup { members_delete(i) : i \in MemberIds }
    \cup { members_update(i, p) : i \in MemberIds, p \in PeerUrlLists }

\* Every call of the client API explored.
ClientCalls == Calls \cup AuthCalls \cup MembersCalls

-----------------------------------------------------------------------------
(* Results.  Result<T, E> is a record with a tag; the Ok item and the      *)
(* error are options so that every result has the same shape.             *)

Ok(item) == [tag |-> "Ok", item |-> Some(item), err |-> None]

Err(err) == [tag |-> "Err", item |-> None, err |-> Some(err)]

is_ok(res) == res.tag = "Ok"

is_err(res) == res.tag = "Err"

-----------------------------------------------------------------------------
(* What the cluster may answer.                                            *)

Statuses == {200, 201, 204, 404, 409}

\* A response body: the JSON of a KeyValueInfo, the JSON of an ApiError,
\* bytes that are neither, or a body whose transfer fails.
Bodies == {"KeyValueInfo", "ApiError", "garbage", "aborted"}

\* The bodies answered to an auth or members request: the JSON of a Role,
\* User, UserDetail, Roles, Users, AuthStatus or ListResponse, no body at
\* all, and the bodies above that are no KeyValueInfo.
OpBodies ==
    {"Role", "User", "UserDetail", "Roles", "Users", "AuthStatus", "ListResponse", ""}
    \cup (Bodies \ {"KeyValueInfo"})

ResponseBodies(raw) ==
    IF raw \in {"raw_delete", "raw_get", "raw_set"} THEN Bodies ELSE OpBodies

ClusterInfos == {"cluster-1", "cluster-2"}

\* The outcome of building the request URI of one attempt.
UriOutcomes(raw) ==
    IF raw \in {"raw_delete", "raw_get"}
        THEN {"ok", "InvalidUrl", "InvalidUri"} ELSE {"ok", "InvalidUri"}

-----------------------------------------------------------------------------
(* Request construction.                                                   *)

build_url(endpoint, path) == endpoint \o "v2/keys" \o path

\* url::form_urlencoded::Serializer over a sequence of pairs.
RECURSIVE form_urlencoded(_)
form_urlencoded(pairs) ==
    IF pairs = <<>> THEN ""
    ELSE IF Len(pairs) = 1 THEN pairs[1][1] \o "=" \o pairs[1][2]
    ELSE pairs[1][1] \o "=" \o pairs[1][2] \o "&" \o form_urlencoded(Tail(pairs))

\* Url::parse_with_params followed by Uri::from_str: the query is a HashMap,
\* so the parameters are a set of pairs.
parse_with_params(url, query_pairs) == [url |-> url, query |-> query_pairs]

\* HttpClient::request.
http_request(method, uri) ==
    [method |-> method, uri |-> uri, content_type |-> None, body |-> None]

\* HttpClient::request_with_body.
http_request_with_body(method, uri, body) ==
    [method |-> method, uri |-> uri,
     content_type |-> Some("application/x-www-form-urlencoded"), body |-> Some(body)]

raw_delete_query_pairs(options) ==
    (IF is_some(options.recursive)
        THEN { <<"recursive", bool_to_string(unwrap(options.recursive))>> } ELSE {})
    \cup (IF is_some(options.dir)
        THEN { <<"dir", bool_to_string(unwrap(options.dir))>> } ELSE {})
    \cup (IF is_some(options.conditions) /\ is_some(unwrap(options.conditions).modified_index)
        THEN { <<"prevIndex", u64_to_string(unwrap(unwrap(options.conditions).modified_index))>> }
        ELSE {})
    \cup (IF is_some(options.conditions) /\ is_some(unwrap(options.conditions).value)
        THEN { <<"prevValue", unwrap(unwrap(options.conditions).value)>> } ELSE {})

\* A query that always says whether the get waits.
raw_get_query_pairs_wait_always(options) ==
    { <<"recursive", bool_to_string(options.recursive)>>,
      <<"wait", bool_to_string(options.wait)>> }
    \cup (IF is_some(options.sort)
        THEN { <<"sorted", bool_to_string(unwrap(options.sort))>> } ELSE {})
    \cup (IF is_some(options.wait_index)
        THEN { <<"waitIndex", u64_to_string(unwrap(options.wait_index))>> } ELSE {})

raw_get_query_pairs(options) ==
    { <<"recursive", bool_to_string(options.recursive)>> }
    \cup (IF is_some(options.sort)
        THEN { <<"sorted", bool_to_string(unwrap(options.sort))>> } ELSE {})
    \cup (IF options.wait THEN { <<"wait", "true">> } ELSE {})
    \cup (IF is_some(options.wait_index)
        THEN { <<"waitIndex", u64_to_string(unwrap(options.wait_index))>> } ELSE {})

\* Options in which an absent ttl is sent as ttl=0.
raw_set_http_options_sentinel(options) ==
    (IF is_some(options.value) THEN << <<"value", unwrap(options.value)>> >> ELSE <<>>)
    \o (IF is_some(options.ttl)
           THEN << <<"ttl", u64_to_string(unwrap(options.ttl))>> >> ELSE << <<"ttl", "0">> >>)
    \o (IF is_some(options.dir) THEN << <<"dir", bool_to_string(unwrap(options.dir))>> >> ELSE <<>>)
    \o (IF is_some(options.prev_exist)
        THEN << <<"prevExist", bool_to_string(unwrap(options.prev_exist))>> >> ELSE <<>>)
    \o (IF is_some(options.conditions) /\ is_some(unwrap(options.conditions).modified_index)
        THEN << <<"prevIndex", u64_to_string(unwrap(unwrap(options.conditions).modified_index))>> >>
        ELSE <<>>)
    \o (IF is_some(options.conditions) /\ is_some(unwrap(options.conditions).value)
        THEN << <<"prevValue", unwrap(unwrap(options.conditions).value)>> >> ELSE <<>>)

raw_set_http_options(options) ==
    (IF is_some(options.value) THEN << <<"value", unwrap(options.value)>> >> ELSE <<>>)
    \o (IF is_some(options.ttl) THEN << <<"ttl", u64_to_string(unwrap(options.ttl))>> >> ELSE <<>>)
    \o (IF is_some(options.dir) THEN << <<"dir", bool_to_string(unwrap(options.dir))>> >> ELSE <<>>)
    \o (IF is_some(options.prev_exist)
        THEN << <<"prevExist", bool_to_string(unwrap(options.prev_exist))>> >> ELSE <<>>)
    \o (IF is_some(options.conditions) /\ is_some(unwrap(options.conditions).modified_index)
        THEN << <<"prevIndex", u64_to_string(unwrap(unwrap(options.conditions).modified_index))>> >>
        ELSE <<>>)
    \o (IF is_some(options.conditions) /\ is_some(unwrap(options.conditions).value)
        THEN << <<"prevValue", unwrap(unwrap(options.conditions).value)>> >> ELSE <<>>)

\* The request the per-endpoint closure of raw_delete hands to the transport.
raw_delete_request(endpoint, c) ==
    http_request("DELETE",
        parse_with_params(build_url(endpoint, c.key), raw_delete_query_pairs(c.options)))

\* The request the per-endpoint closure of raw_get hands to the transport.
raw_get_request(endpoint, c) ==
    http_request("GET",
        parse_with_params(build_url(endpoint, c.key), raw_get_query_pairs(c.options)))

\* A set that is always a PUT and marks the ordered creation in the body.
raw_set_request_ordered_field(endpoint, c) ==
    http_request_with_body(
        "PUT",
        parse_with_params(build_url(endpoint, c.key), {}),
        form_urlencoded(raw_set_http_options(c.options)
                        \o (IF c.options.create_in_order
                               THEN << <<"createInOrder", "true">> >> ELSE <<>>)))

\* The request the per-endpoint closure of raw_set hands to the transport.
raw_set_request(endpoint, c) ==
    http_request_with_body(
        IF c.options.create_in_order THEN "POST" ELSE "PUT",
        parse_with_params(build_url(endpoint, c.key), {}),
        form_urlencoded(raw_set_http_options(c.options)))

\* The credentials a client can be constructed with (client::BasicAuth).
BasicAuths == { None, Some([username |-> "root", password |-> "secret"]) }

\* base64::encode of the credentials a client can be constructed with.
encode(auth) ==
    CASE auth = "root:secret" -> "cm9vdDpzZWNyZXQ="

\* A header that is sent, empty, when the client has no credentials.
add_auth_header_always(basic_auth) ==
    IF is_some(basic_auth)
       THEN Some("Basic " \o encode(unwrap(basic_auth).username \o ":"
                                     \o unwrap(basic_auth).password))
       ELSE Some("Basic ")

\* HttpClient::add_auth_header: the value of the Authorization header of a
\* request, None when the builder is returned as it came.
add_auth_header(basic_auth) ==
    IF is_some(basic_auth)
       THEN Some("Basic " \o encode(unwrap(basic_auth).username \o ":"
                                     \o unwrap(basic_auth).password))
       ELSE None

\* HttpClient::delete, get, post and put.
http_delete(uri) == http_request("DELETE", uri)

http_get(uri) == http_request("GET", uri)

http_post(uri, body) == http_request_with_body("POST", uri, body)

http_put(uri, body) == http_request_with_body("PUT", uri, body)

auth_build_url(endpoint, path) == endpoint \o "v2/auth" \o path

members_build_url(endpoint, path) == endpoint \o "v2/members" \o path

\* Uri::from_str of a URL without parameters.
from_str(url) == parse_with_params(url, {})

\* The request the per-endpoint closure of an auth operation hands to the
\* transport.
auth_request(endpoint, c) ==
    CASE c.raw \in {"auth::create_role", "auth::create_user",
                    "auth::update_role", "auth::update_user"} ->
            http_put(from_str(auth_build_url(endpoint, c.key)),
                     name_to_string(unwrap(c.options)))
      [] c.raw = "auth::enable" ->
            http_put(from_str(auth_build_url(endpoint, c.key)), "")
      [] c.raw \in {"auth::delete_role", "auth::delete_user", "auth::disable"} ->
            http_delete(from_str(auth_build_url(endpoint, c.key)))
      [] c.raw \in {"auth::get_role", "auth::get_roles", "auth::get_user",
                    "auth::get_users", "auth::status"} ->
            http_get(from_str(auth_build_url(endpoint, c.key)))

\* The request the per-endpoint closure of a members operation hands to the
\* transport.
members_request(endpoint, c) ==
    CASE c.raw = "members::add" ->
            http_post(from_str(members_build_url(endpoint, c.key)),
                      peer_urls_to_string(unwrap(c.options)))
      [] c.raw = "members::delete" ->
            http_delete(from_str(members_build_url(endpoint, c.key)))
      [] c.raw = "members::list" ->
            http_get(from_str(members_build_url(endpoint, c.key)))
      [] c.raw = "members::update" ->
            http_put(from_str(members_build_url(endpoint, c.key)),
                     peer_urls_to_string(unwrap(c.options)))

closure_request(endpoint, c) ==
    CASE c.raw = "raw_delete" -> raw_delete_request(endpoint, c)
      [] c.raw = "raw_get" -> raw_get_request(endpoint, c)
      [] c.raw = "raw_set" -> raw_set_request(endpoint, c)
      [] c \in AuthCalls -> auth_request(endpoint, c)
      [] c \in MembersCalls -> members_request(endpoint, c)

-----------------------------------------------------------------------------
(* Response classification.                                                *)

Response(data, cluster_info) == [data |-> data, cluster_info |-> cluster_info]

\* serde_json::from_reader::<_, KeyValueInfo> and ::<_, ApiError>.
decode(body, shape) == IF body = shape THEN Ok(body) ELSE Err("Serialization")

\* Error::Api(error): the variant carries the decoded ApiError.
Api(error) == "Api: " \o error

\* A success branch that takes the status at its word and never decodes.
classify_success_unchecked(cluster_info, body) == Ok(Response(body, cluster_info))

\* The success branch of the three closures.
classify_success(cluster_info, body) ==
    IF is_ok(decode(body, "KeyValueInfo"))
        THEN Ok(Response(unwrap(decode(body, "KeyValueInfo").item), cluster_info))
        ELSE Err("Serialization")

\* An error branch that never looks for the structured error.
classify_failure_opaque(body) == Err("Serialization")

\* The error branch of the three closures.
classify_failure(body) ==
    IF is_ok(decode(body, "ApiError"))
        THEN Err(Api(unwrap(decode(body, "ApiError").item)))
        ELSE Err("Serialization")

raw_delete_classify(status, cluster_info, body) ==
    IF body = "aborted" THEN Err("Http")
    ELSE IF status = 200 THEN classify_success(cluster_info, body)
    ELSE classify_failure(body)

\* A get that only takes the answer of the cluster it expects.
raw_get_classify_pinned(status, cluster_info, body) ==
    IF body = "aborted" THEN Err("Http")
    ELSE IF status = 200 /\ cluster_info = "cluster-1" THEN classify_success(cluster_info, body)
    ELSE classify_failure(body)

raw_get_classify(status, cluster_info, body) ==
    IF body = "aborted" THEN Err("Http")
    ELSE IF status = 200 THEN classify_success(cluster_info, body)
    ELSE classify_failure(body)

raw_set_classify(status, cluster_info, body) ==
    IF body = "aborted" THEN Err("Http")
    ELSE IF status \in {201, 200} THEN classify_success(cluster_info, body)
    ELSE classify_failure(body)

\* Error::UnexpectedStatus(status).
UnexpectedStatus(status) == "UnexpectedStatus: " \o u64_to_string(status)

\* A decode that takes whatever bytes arrived for the data.
classify_as_unchecked(shape, cluster_info, body) == Ok(Response(body, cluster_info))

\* match serde_json::from_slice::<T>(body): Ok(data) => Ok(Response { data,
\* cluster_info }), Err(error) => Err(Error::Serialization(error)).
classify_as(shape, cluster_info, body) ==
    IF is_ok(decode(body, shape))
        THEN Ok(Response(unwrap(decode(body, shape).item), cluster_info))
        ELSE Err("Serialization")

auth_create_role_classify(status, cluster_info, body) ==
    IF body = "aborted" THEN Err("Http")
    ELSE IF status \in {200, 201} THEN classify_as("Role", cluster_info, body)
    ELSE Err(UnexpectedStatus(status))

auth_create_user_classify(status, cluster_info, body) ==
    IF body = "aborted" THEN Err("Http")
    ELSE IF status \in {200, 201} THEN classify_as("User", cluster_info, body)
    ELSE Err(UnexpectedStatus(status))

\* delete_role and delete_user: the body is not read.
auth_delete_classify(status, cluster_info, body) ==
    IF status = 200 THEN Ok(Response("()", cluster_info))
    ELSE Err(UnexpectedStatus(status))

\* A toggle that knows nothing of 409.
auth_toggle_classify_strict(status, cluster_info, body) ==
    IF status = 200 THEN Ok(Response("Changed", cluster_info))
    ELSE Err(UnexpectedStatus(status))

\* disable and enable: the body is not read.
auth_toggle_classify(status, cluster_info, body) ==
    CASE status = 200 -> Ok(Response("Changed", cluster_info))
      [] status = 409 -> Ok(Response("Unchanged", cluster_info))
      [] OTHER -> Err(UnexpectedStatus(status))

\* A read that looks for a structured error in the body of a bad status.
auth_read_classify_structured(shape, status, cluster_info, body) ==
    IF body = "aborted" THEN Err("Http")
    ELSE IF status = 200 THEN classify_as(shape, cluster_info, body)
    ELSE classify_failure(body)

\* get_role, get_roles, get_user, get_users, update_role and update_user,
\* each with the shape it decodes.
auth_read_classify(shape, status, cluster_info, body) ==
    IF body = "aborted" THEN Err("Http")
    ELSE IF status = 200 THEN classify_as(shape, cluster_info, body)
    ELSE Err(UnexpectedStatus(status))

auth_status_classify(status, cluster_info, body) ==
    IF body = "aborted" THEN Err("Http")
    ELSE IF status = 200 THEN classify_as("AuthStatus", cluster_info, body)
    ELSE classify_failure(body)

auth_classify(raw, status, cluster_info, body) ==
    CASE raw = "auth::create_role" -> auth_create_role_classify(status, cluster_info, body)
      [] raw = "auth::create_user" -> auth_create_user_classify(status, cluster_info, body)
      [] raw \in {"auth::delete_role", "auth::delete_user"} ->
            auth_delete_classify(status, cluster_info, body)
      [] raw \in {"auth::disable", "auth::enable"} ->
            auth_toggle_classify(status, cluster_info, body)
      [] raw \in {"auth::get_role", "auth::update_role"} ->
            auth_read_classify("Role", status, cluster_info, body)
      [] raw = "auth::get_roles" -> auth_read_classify("Roles", status, cluster_info, body)
      [] raw = "auth::get_user" -> auth_read_classify("UserDetail", status, cluster_info, body)
      [] raw = "auth::get_users" -> auth_read_classify("Users", status, cluster_info, body)
      [] raw = "auth::update_user" -> auth_read_classify("User", status, cluster_info, body)
      [] raw = "auth::status" -> auth_status_classify(status, cluster_info, body)

members_add_classify(status, cluster_info, body) ==
    IF body = "aborted" THEN Err("Http")
    ELSE IF status = 201 THEN Ok(Response("()", cluster_info))
    ELSE classify_failure(body)

\* A delete that takes every 2xx status for success.
members_delete_classify_any_2xx(status, cluster_info, body) ==
    IF body = "aborted" THEN Err("Http")
    ELSE IF status \in 200..299 THEN Ok(Response("()", cluster_info))
    ELSE classify_failure(body)

members_delete_classify(status, cluster_info, body) ==
    IF body = "aborted" THEN Err("Http")
    ELSE IF status = 204 THEN Ok(Response("()", cluster_info))
    ELSE classify_failure(body)

members_list_classify(status, cluster_info, body) ==
    IF body = "aborted" THEN Err("Http")
    ELSE IF status = 200 THEN classify_as("ListResponse", cluster_info, body)
    ELSE classify_failure(body)

members_update_classify(status, cluster_info, body) ==
    IF body = "aborted" THEN Err("Http")
    ELSE IF status = 204 THEN Ok(Response("()", cluster_info))
    ELSE classify_failure(body)

members_classify(raw, status, cluster_info, body) ==
    CASE raw = "members::add" -> members_add_classify(status, cluster_info, body)
      [] raw = "members::delete" -> members_delete_classify(status, cluster_info, body)
      [] raw = "members::list" -> members_list_classify(status, cluster_info, body)
      [] raw = "members::update" -> members_update_classify(status, cluster_info, body)

closure_classify(raw, status, cluster_info, body) ==
    CASE raw = "raw_delete" -> raw_delete_classify(status, cluster_info, body)
      [] raw = "raw_get" -> raw_get_classify(status, cluster_info, body)
      [] raw = "raw_set" -> raw_set_classify(status, cluster_info, body)
      [] raw \in { c.raw : c \in AuthCalls } -> auth_classify(raw, status, cluster_info, body)
      [] raw \in { c.raw : c \in MembersCalls } ->
            members_classify(raw, status, cluster_info, body)

-----------------------------------------------------------------------------
(* The state of one call.                                                  *)

VARIABLES
    endpoints,  \* the client's endpoint list (client.endpoints())
    call,       \* the API function called, with its arguments as options
    pc,         \* "called": not yet run; "dispatch": inside first_ok; "done": returned;
                \* "timed_out": dropped by the watch timeout
    next,       \* position of the item the endpoint iterator yields next
    inflight,   \* positions whose request is with the transport, unanswered
    response,   \* status and body answered to the latest attempt, if it was answered
    errors,     \* first_future_ok's accumulator
    result,     \* what the call returned, once it has
    started,    \* history: positions in the order the callback was invoked on them
    finished,   \* history: [pos, res] in the order the attempts' futures completed
    sent,       \* history: [pos, request, authorization] of every request handed to the transport
    checks,     \* history: for each evaluation of is_empty, the number of attempts started before it
    basic_auth, \* the credentials the client's HttpClient was constructed with, if any
    suspended,  \* the state of another call on the same client whose future is not
                \* the one being polled, if there is one
    clock       \* history: for each tick of time that passed while the timer of watch
                \* ran, the position whose request was in flight

vars == <<endpoints, call, pc, next, inflight, response, errors, result, started, finished,
         sent, checks, basic_auth, suspended, clock>>

Init ==
    /\ endpoints \in EndpointLists
    /\ call \in Calls
    /\ pc = "called"
    /\ next = 1
    /\ inflight = {}
    /\ response = None
    /\ errors = <<>>
    /\ result = None
    /\ started = <<>>
    /\ finished = <<>>
    /\ sent = <<>>
    /\ checks = <<>>
    /\ basic_auth = None
    /\ suspended = None
    /\ clock = <<>>

-----------------------------------------------------------------------------
(* raw_get, raw_set and raw_delete up to their call of first_ok.           *)

\* A conditions test that never rejects.
ConditionsUnchecked(options) ==
    /\ checks' = checks
    /\ pc' = "dispatch"
    /\ UNCHANGED result

\* A conditions test that reports the empty conditions once per endpoint.
ConditionsCheckedPerEndpoint(options) ==
    /\ checks' = IF is_some(options.conditions)
                    THEN Append(checks, Len(started)) ELSE checks
    /\ IF is_some(options.conditions) /\ is_empty(unwrap(options.conditions))
          THEN /\ result' = Some(Err([i \in 1..Len(endpoints) |-> "InvalidConditions"]))
               /\ pc' = "done"
          ELSE /\ pc' = "dispatch"
               /\ UNCHANGED result

\* The conditions test of raw_set and raw_delete: is_empty is evaluated when
\* conditions are given, and empty conditions end the call.
ConditionsChecked(options) ==
    /\ checks' = IF is_some(options.conditions)
                    THEN Append(checks, Len(started)) ELSE checks
    /\ IF is_some(options.conditions) /\ is_empty(unwrap(options.conditions))
          THEN /\ result' = Some(Err(<<"InvalidConditions">>))
               /\ pc' = "done"
          ELSE /\ pc' = "dispatch"
               /\ UNCHANGED result

raw_delete ==
    /\ pc = "called"
    /\ call.raw = "raw_delete"
    /\ ConditionsChecked(call.options)
    /\ UNCHANGED <<clock, basic_auth, suspended, endpoints, call, next, inflight, response, errors, started, finished, sent>>

raw_get ==
    /\ pc = "called"
    /\ call.raw = "raw_get"
    /\ pc' = "dispatch"
    /\ UNCHANGED <<clock, basic_auth, suspended, endpoints, call, next, inflight, response, errors, result, started,
                   finished, sent, checks>>

raw_set ==
    /\ pc = "called"
    /\ call.raw = "raw_set"
    /\ ConditionsChecked(call.options)
    /\ UNCHANGED <<clock, basic_auth, suspended, endpoints, call, next, inflight, response, errors, started, finished, sent>>

-----------------------------------------------------------------------------
(* first_ok and first_future_ok.                                           *)

\* A future that goes on being polled after the watch timeout has elapsed.
PolledAfterTimeout == pc \in {"dispatch", "timed_out"}

\* The future of first_ok is being polled: it has been started and has neither
\* returned nor been dropped.
Polled == pc = "dispatch"

\* A loop that does not wait for the future it started (the futures are
\* driven together).
LoopPullsEager(k) ==
    /\ k = next
    /\ k <= Len(endpoints)

\* A loop that goes back once to an endpoint whose attempt failed.
LoopPullsRetry(k) ==
    /\ inflight = {}
    /\ k <= Len(endpoints)
    /\ \/ k = next
       \/ /\ k = next - 1
          /\ k >= 1
          /\ Cardinality({ j \in 1..Len(started) : started[j] = k }) = 1

\* A loop that takes the endpoints it has not tried in any order.
LoopPullsAnyOrder(k) ==
    /\ inflight = {}
    /\ k >= 1
    /\ k <= Len(endpoints)
    /\ \A j \in 1..Len(started) : started[j] # k

\* The for loop asks the iterator for item k: the iterator is lazy, so this
\* is when the callback runs on endpoint k, and the loop only comes back to
\* the iterator when the future it was awaiting has completed.
LoopPulls(k) ==
    /\ inflight = {}
    /\ k = next
    /\ k <= Len(endpoints)

\* A match that goes on to the next endpoint after an Ok.
AwaitResultNoShortCircuit(k, res) ==
    /\ finished' = Append(finished, [pos |-> k, res |-> res])
    /\ IF is_ok(res)
          THEN /\ result' = Some(Ok(unwrap(res.item)))
               /\ UNCHANGED <<errors, pc>>
          ELSE /\ errors' = Append(errors, unwrap(res.err))
               /\ UNCHANGED <<result, pc>>

\* A match that reports the errors met so far when an Ok follows them.
AwaitResultSurfacesErrors(k, res) ==
    /\ finished' = Append(finished, [pos |-> k, res |-> res])
    /\ IF is_ok(res)
          THEN /\ result' = IF errors = <<>> THEN Some(Ok(unwrap(res.item)))
                            ELSE Some(Err(errors))
               /\ pc' = "done"
               /\ UNCHANGED errors
          ELSE /\ errors' = Append(errors, unwrap(res.err))
               /\ UNCHANGED <<result, pc>>

\* A match that puts the newest error first.
AwaitResultPrepends(k, res) ==
    /\ finished' = Append(finished, [pos |-> k, res |-> res])
    /\ IF is_ok(res)
          THEN /\ result' = Some(Ok(unwrap(res.item)))
               /\ pc' = "done"
               /\ UNCHANGED errors
          ELSE /\ errors' = <<unwrap(res.err)>> \o errors
               /\ UNCHANGED <<result, pc>>

\* A match that ends the call with the one error when the URI cannot be built.
AwaitResultAbortsOnUri(k, res) ==
    /\ finished' = Append(finished, [pos |-> k, res |-> res])
    /\ IF is_ok(res)
          THEN /\ result' = Some(Ok(unwrap(res.item)))
               /\ pc' = "done"
               /\ UNCHANGED errors
          ELSE IF unwrap(res.err) \in {"InvalidUrl", "InvalidUri"}
             THEN /\ result' = Some(Err(<<unwrap(res.err)>>))
                  /\ pc' = "done"
                  /\ UNCHANGED errors
             ELSE /\ errors' = Append(errors, unwrap(res.err))
                  /\ UNCHANGED <<result, pc>>

\* A match that takes the answer of a member that rejected the request for
\* the answer of the cluster and returns it.
AwaitResultStopsOnApi(k, res) ==
    /\ finished' = Append(finished, [pos |-> k, res |-> res])
    /\ IF is_ok(res)
          THEN /\ result' = Some(Ok(unwrap(res.item)))
               /\ pc' = "done"
               /\ UNCHANGED errors
          ELSE IF unwrap(res.err) = Api("ApiError")
             THEN /\ result' = Some(Err(Append(errors, unwrap(res.err))))
                  /\ pc' = "done"
                  /\ errors' = Append(errors, unwrap(res.err))
             ELSE /\ errors' = Append(errors, unwrap(res.err))
                  /\ UNCHANGED <<result, pc>>

\* The match on the awaited future's output.
AwaitResult(k, res) ==
    /\ finished' = Append(finished, [pos |-> k, res |-> res])
    /\ IF is_ok(res)
          THEN /\ result' = Some(Ok(unwrap(res.item)))
               /\ pc' = "done"
               /\ UNCHANGED errors
          ELSE /\ errors' = Append(errors, unwrap(res.err))
               /\ UNCHANGED <<result, pc>>

\* A closure that tests the conditions again on every endpoint.
closure_checks_each(c) ==
    IF c.raw # "raw_get" /\ is_some(c.options.conditions)
       THEN <<Len(started) + 1>> ELSE <<>>

\* The evaluations of is_empty inside the per-endpoint closures: the closures
\* capture the finished parameters and never look at the conditions.
closure_checks(c) == <<>>

\* An attempt that, once an endpoint has answered a watch with an API error,
\* asks the next endpoint for the key as it is now instead of watching.
AttemptRefetch(k) ==
    /\ Polled
    /\ LoopPulls(k)
    /\ started' = Append(started, k)
    /\ next' = k + 1
    /\ response' = None
    /\ \E uri \in UriOutcomes(call.raw) :
          IF uri = "ok"
             THEN /\ sent' = Append(sent, [pos |-> k,
                                           request |-> IF call.api = "watch" /\ errors # <<>>
                                                    /\ errors[Len(errors)] = Api("ApiError")
                                                  THEN raw_get_request(endpoints[k],
                                                         [call EXCEPT !.options.wait = FALSE,
                                                                      !.options.wait_index = None])
                                                  ELSE closure_request(endpoints[k], call),
                                           authorization |-> add_auth_header(basic_auth)])
                  /\ inflight' = inflight \cup {k}
                  /\ UNCHANGED <<errors, result, pc, finished>>
             ELSE /\ AwaitResult(k, Err(uri))
                  /\ UNCHANGED <<sent, inflight>>
    /\ checks' = checks \o closure_checks(call)
    /\ UNCHANGED <<clock, basic_auth, suspended, endpoints, call>>

\* The callback is invoked on endpoint k and its future is polled: the URI is
\* built, and either it is handed with the request to the transport or the
\* future is ready with the URI error.
Attempt(k) ==
    /\ Polled
    /\ LoopPulls(k)
    /\ started' = Append(started, k)
    /\ next' = k + 1
    /\ response' = None
    /\ \E uri \in UriOutcomes(call.raw) :
          IF uri = "ok"
             THEN /\ sent' = Append(sent, [pos |-> k,
                                           request |-> closure_request(endpoints[k], call),
                                           authorization |-> add_auth_header(basic_auth)])
                  /\ inflight' = inflight \cup {k}
                  /\ UNCHANGED <<errors, result, pc, finished>>
             ELSE /\ AwaitResult(k, Err(uri))
                  /\ UNCHANGED <<sent, inflight>>
    /\ checks' = checks \o closure_checks(call)
    /\ UNCHANGED <<clock, basic_auth, suspended, endpoints, call>>

\* The transport fails on the request to endpoint k (connection, DNS, TLS).
TransportError(k) ==
    /\ Polled
    /\ k \in inflight
    /\ inflight' = inflight \ {k}
    /\ response' = None
    /\ AwaitResult(k, Err("Http"))
    /\ UNCHANGED <<clock, basic_auth, suspended, endpoints, call, next, started, sent, checks>>

\* Endpoint k answers and the closure classifies the response.
Respond(k) ==
    /\ Polled
    /\ k \in inflight
    /\ inflight' = inflight \ {k}
    /\ \E status \in Statuses, cluster_info \in ClusterInfos,
          body \in ResponseBodies(call.raw) :
          /\ response' = Some([status |-> status, body |-> body])
          /\ AwaitResult(k, closure_classify(call.raw, status, cluster_info, body))
    /\ UNCHANGED <<clock, basic_auth, suspended, endpoints, call, next, started, sent, checks>>

\* An exhausted loop that makes up an error when it has none to report.
ExhaustedNeverEmpty ==
    /\ Polled
    /\ inflight = {}
    /\ next > Len(endpoints)
    /\ result' = Some(Err(IF errors = <<>> THEN <<"NoEndpoints">> ELSE errors))
    /\ pc' = "done"
    /\ UNCHANGED <<clock, basic_auth, suspended, endpoints, call, next, inflight, response, errors, started, finished,
                   sent, checks>>

\* The iterator is exhausted: Err(errors).
Exhausted ==
    /\ Polled
    /\ inflight = {}
    /\ next > Len(endpoints)
    /\ result' = Some(Err(errors))
    /\ pc' = "done"
    /\ UNCHANGED <<clock, basic_auth, suspended, endpoints, call, next, inflight, response, errors, started, finished,
                   sent, checks>>

-----------------------------------------------------------------------------
(* The timer of watch.                                                     *)

\* A timer that is armed for every call.
TimerArmedAlways == TRUE

\* A timer that is never armed: the work is awaited as if no timeout was given.
TimerArmedNever == FALSE

\* watch races the work against a timer only when options.timeout is given.
TimerArmed == is_some(call.timeout)

\* The duration elapses while the work is pending on the transport: timeout
\* polls the work first, so the timer wins only at a suspension of the work,
\* and the work is dropped with its request unanswered.
TimerFires ==
    /\ pc = "dispatch"
    /\ TimerArmed
    /\ inflight # {}
    /\ pc' = "timed_out"
    /\ UNCHANGED <<clock, basic_auth, suspended, endpoints, call, next, inflight, response, errors, result, started,
                   finished, sent, checks>>

\* The ticks of time a timeout lasts.
TimeoutTicks == 2

\* A timer that is started again with every attempt: the time it has run is
\* the time of the attempt in flight.
ElapsedPerAttempt == Cardinality({ j \in 1..Len(clock) : clock[j] \in inflight })

\* The time the timer of watch has run: timeout(duration, work) is created
\* once, around the work of the whole call.
Elapsed == Len(clock)

\* A tick of time passes while a request of a watch with a timeout is with
\* the transport; the deadline is not passed with the work pending.
Tick ==
    /\ pc = "dispatch"
    /\ TimerArmed
    /\ inflight # {}
    /\ Elapsed < TimeoutTicks
    /\ clock' = Append(clock, CHOOSE k \in inflight : TRUE)
    /\ UNCHANGED <<basic_auth, suspended, endpoints, call, pc, next, inflight, response,
                   errors, result, started, finished, sent, checks>>

\* The timer fires when the duration has elapsed.
Deadline ==
    /\ Elapsed = TimeoutTicks
    /\ TimerFires

\* A late answer that is still delivered to the caller of watch.
LateResponseResolves(k) ==
    /\ pc = "timed_out"
    /\ k \in inflight
    /\ inflight' = inflight \ {k}
    /\ result' = Some(Ok(Response("KeyValueInfo", "cluster-1")))
    /\ pc' = "done"
    /\ UNCHANGED <<clock, basic_auth, suspended, endpoints, call, next, response, errors, started, finished, sent, checks>>

\* The answer to a request whose future has been dropped: nobody reads it.
LateResponse(k) ==
    /\ pc = "timed_out"
    /\ k \in inflight
    /\ inflight' = inflight \ {k}
    /\ UNCHANGED <<clock, basic_auth, suspended, endpoints, call, pc, next, response, errors, result, started, finished,
                   sent, checks>>

\* WatchError::Other(errors) and WatchError::Timeout.
Other(errs) == [kind |-> "Other", errors |-> errs]

Timeout == [kind |-> "Timeout"]

\* map_err(|errors| WatchError::Other(errors)).
map_err(res) == IF is_ok(res) THEN res ELSE Err(Other(unwrap(res.err)))

\* err_into on the result of timeout(duration, work): Elapsed becomes
\* WatchError::Timeout.
err_into(res) == IF is_ok(res) THEN res ELSE Err(Timeout)

\* A flattening that loses the error list of the work.
flatten_result_lossy(res) ==
    IF is_ok(res) /\ is_err(unwrap(res.item)) THEN Err(Other(<<>>))
    ELSE IF is_ok(res) THEN unwrap(res.item) ELSE res

\* res.and_then(|n| n).
flatten_result(res) == IF is_ok(res) THEN unwrap(res.item) ELSE res

\* What watch has returned: nothing while it waits, the mapped result of the
\* work when the work resolved, Timeout when the timer won.
watch_returns ==
    CASE pc = "timed_out" -> Some(flatten_result(err_into(Err("Elapsed"))))
      [] pc = "done" ->
            IF TimerArmed
                THEN Some(flatten_result(err_into(Ok(map_err(unwrap(result))))))
                ELSE Some(map_err(unwrap(result)))
      [] OTHER -> None

Next ==
    \/ raw_delete
    \/ raw_get
    \/ raw_set
    \/ \E k \in 1..MaxEndpoints + 1 : Attempt(k)
    \/ \E k \in 1..MaxEndpoints + 1 : TransportError(k)
    \/ \E k \in 1..MaxEndpoints + 1 : Respond(k)
    \/ Exhausted
    \/ TimerFires
    \/ \E k \in 1..MaxEndpoints + 1 : LateResponse(k)

Spec == Init /\ [][Next]_vars

-----------------------------------------------------------------------------
(* One watch call under the scheduling of the executor: a step of the      *)
(* future that can be taken is taken, and an armed timer that stays due    *)
(* fires.  Nothing obliges the transport to answer.                        *)

WatchCalls == UNION { { watch(k, o) : o \in WatchOptionsSet } : k \in Keys }

WatchInit ==
    /\ endpoints \in EndpointLists
    /\ call \in WatchCalls
    /\ pc = "called"
    /\ next = 1
    /\ inflight = {}
    /\ response = None
    /\ errors = <<>>
    /\ result = None
    /\ started = <<>>
    /\ finished = <<>>
    /\ sent = <<>>
    /\ checks = <<>>
    /\ basic_auth = None
    /\ suspended = None
    /\ clock = <<>>

\* The steps the polled future takes by itself.
FutureStep ==
    \/ raw_get
    \/ \E k \in 1..MaxEndpoints + 1 : Attempt(k)
    \/ Exhausted

WatchNext ==
    \/ FutureStep
    \/ \E k \in 1..MaxEndpoints + 1 : TransportError(k)
    \/ \E k \in 1..MaxEndpoints + 1 : Respond(k)
    \/ TimerFires
    \/ \E k \in 1..MaxEndpoints + 1 : LateResponse(k)

WatchSpec ==
    /\ WatchInit
    /\ [][WatchNext]_vars
    /\ WF_vars(FutureStep)
    /\ WF_vars(TimerFires)

-----------------------------------------------------------------------------
(* The whole client API: the key-value calls and the auth and members      *)
(* calls, over shorter endpoint lists.                                     *)

MaxClientEndpoints == 2

ClientInit ==
    /\ endpoints \in { e \in EndpointLists : Len(e) <= MaxClientEndpoints }
    /\ call \in ClientCalls
    /\ pc = "called"
    /\ next = 1
    /\ inflight = {}
    /\ response = None
    /\ errors = <<>>
    /\ result = None
    /\ started = <<>>
    /\ finished = <<>>
    /\ sent = <<>>
    /\ checks = <<>>
    /\ basic_auth \in BasicAuths
    /\ suspended = None
    /\ clock = <<>>

\* An auth operation hands its closure to first_ok at once.
auth_op ==
    /\ pc = "called"
    /\ call \in AuthCalls
    /\ pc' = "dispatch"
    /\ UNCHANGED <<clock, basic_auth, suspended, endpoints, call, next, inflight, response, errors, result, started,
                   finished, sent, checks>>

\* A members operation hands its closure to first_ok; add and update have
\* serialized their PeerUrls before, which cannot fail for a list of strings.
members_op ==
    /\ pc = "called"
    /\ call \in MembersCalls
    /\ pc' = "dispatch"
    /\ UNCHANGED <<clock, basic_auth, suspended, endpoints, call, next, inflight, response, errors, result, started,
                   finished, sent, checks>>

ClientNext == Next \/ auth_op \/ members_op

ClientSpec == ClientInit /\ [][ClientNext]_vars

-----------------------------------------------------------------------------
(* Vocabulary of the properties.                                           *)

Range(seq) == { seq[i] : i \in 1..Len(seq) }

\* The call is a conditional set or delete whose conditions are both absent.
EmptyConditions ==
    /\ call.raw \in {"raw_set", "raw_delete"}
    /\ is_some(call.options.conditions)
    /\ is_empty(unwrap(call.options.conditions))

\* The call has returned from first_ok (and not from the conditions test).
Dispatched == pc = "done" /\ ~EmptyConditions

\* The completed attempt on position k, if any.
FinishedAt(k) == { j \in 1..Len(finished) : finished[j].pos = k }

AllFailed == \A j \in 1..Len(finished) : is_err(finished[j].res)

UriError(res) == is_err(res) /\ unwrap(res.err) \in {"InvalidUrl", "InvalidUri"}

-----------------------------------------------------------------------------
(* The failover dispatcher.                                                *)

\* C1: the callback runs on the endpoints in list order and one at a time:
\* the j-th attempt is on position j, every request goes to the endpoint at
\* its position, at most one attempt is unanswered, and every attempt but the
\* latest has completed before the next one started.
C1_InOrderOneAtATime ==
    /\ \A j \in 1..Len(started) : started[j] = j
    /\ \A j \in 1..Len(sent) :
          /\ sent[j].request.uri.url = build_url(endpoints[sent[j].pos], call.key)
          /\ \A i \in 1..(j - 1) : sent[i].pos < sent[j].pos
    /\ Cardinality(inflight) <= 1
    /\ \A j \in 1..(Len(started) - 1) : FinishedAt(started[j]) # {}
    /\ \A j \in 1..Len(finished) : finished[j].pos = started[j]

C1_Witness ==
    /\ Len(endpoints) >= 3
    /\ endpoints[1] = Member(Len(endpoints))
    /\ Len(sent) >= 3
    /\ Len(finished) >= 3

\* C2: once an attempt has returned Ok the call is over and nothing after that
\* endpoint is attempted: the Ok attempt is the last one started and completed,
\* and no request is outstanding; when the first endpoint succeeds exactly one
\* attempt has run, however many endpoints follow it.
C2_ShortCircuit ==
    \A j \in 1..Len(finished) :
        is_ok(finished[j].res) =>
            /\ pc = "done"
            /\ j = Len(finished)
            /\ started[Len(started)] = finished[j].pos
            /\ inflight = {}
            /\ \A i \in 1..Len(sent) : sent[i].pos <= finished[j].pos
            /\ finished[j].pos = 1 => Len(started) = 1 /\ Len(sent) = 1

C2_Witness ==
    /\ Len(endpoints) >= 4
    /\ Len(finished) = 1
    /\ is_ok(finished[1].res)
    /\ pc = "done"

\* C3: when endpoint i succeeds after all endpoints before it failed, the call
\* returns Ok with the value of endpoint i's attempt, and no error.
C3_FirstOkValue ==
    \A j \in 1..Len(finished) :
        (is_ok(finished[j].res) /\ \A m \in 1..(j - 1) : is_err(finished[m].res)) =>
            /\ result = Some(Ok(unwrap(finished[j].res.item)))
            /\ unwrap(result).err = None

C3_Witness ==
    /\ Len(finished) >= 3
    /\ is_err(finished[1].res)
    /\ is_err(finished[2].res)
    /\ is_ok(finished[3].res)
    /\ unwrap(finished[3].res.item).cluster_info = "cluster-2"
    /\ is_some(result)

\* C4: when every attempt fails the call returns Err(errors) with one error
\* per endpoint, errors[k] being the error of the attempt on endpoint k.
C4_AllErrorsInOrder ==
    (Dispatched /\ AllFailed) =>
        /\ is_some(result)
        /\ is_err(unwrap(result))
        /\ Len(unwrap(unwrap(result).err)) = Len(endpoints)
        /\ \A k \in 1..Len(endpoints) :
              \E j \in FinishedAt(k) :
                  unwrap(unwrap(result).err)[k] = unwrap(finished[j].res.err)

C4_Witness ==
    /\ Dispatched
    /\ AllFailed
    /\ Len(endpoints) >= 3
    /\ unwrap(unwrap(result).err)[1] = Api("ApiError")
    /\ unwrap(unwrap(result).err)[2] = "Http"
    /\ unwrap(unwrap(result).err)[3] = "Serialization"

\* C5: with no endpoint configured the call returns Err of the empty list and
\* the closure is never invoked.
C5_EmptyEndpointList ==
    (endpoints = <<>>) =>
        /\ started = <<>>
        /\ sent = <<>>
        /\ Dispatched => result = Some(Err(<<>>))

C5_Witness ==
    /\ endpoints = <<>>
    /\ Dispatched

\* C6: no endpoint position is attempted twice, there are never more attempts
\* than endpoints, and when the call has returned every endpoint with no
\* successful predecessor has been attempted exactly once.
C6_EachEndpointOnce ==
    /\ \A i, j \in 1..Len(started) : i # j => started[i] # started[j]
    /\ Len(started) <= Len(endpoints)
    /\ Dispatched =>
          \A k \in 1..Len(endpoints) :
              (\A j \in 1..Len(finished) : finished[j].pos < k => is_err(finished[j].res)) =>
                  Cardinality({ i \in 1..Len(started) : started[i] = k }) = 1

C6_Witness ==
    /\ Dispatched
    /\ Len(endpoints) >= 3
    /\ Len(started) = 2
    /\ is_ok(unwrap(result))

-----------------------------------------------------------------------------
(* Validation of the conditions.                                           *)

\* C7: compare_and_swap and compare_and_delete with neither a current value
\* nor a current modified index fail with InvalidConditions and the transport
\* is never invoked, whatever the number of endpoints.
C7_InvalidConditionsNoContact ==
    (/\ call.api \in {"compare_and_swap", "compare_and_delete"}
     /\ is_none(unwrap(call.options.conditions).value)
     /\ is_none(unwrap(call.options.conditions).modified_index)) =>
        /\ sent = <<>>
        /\ started = <<>>
        /\ pc # "dispatch"
        /\ pc = "done" =>
              /\ is_err(unwrap(result))
              /\ "InvalidConditions" \in Range(unwrap(unwrap(result).err))

C7_Witness ==
    /\ call.api = "compare_and_swap"
    /\ EmptyConditions
    /\ Len(endpoints) >= 3
    /\ pc = "done"

\* C8: the conditions of a set or delete are tested once per call, before the
\* first endpoint attempt: no test happens after an attempt has started, a
\* conditional call that has begun has tested them exactly once, and a call
\* that failed the test has started no attempt.
C8_CheckedOnceBeforeDispatch ==
    /\ Len(checks) <= 1
    /\ \A i \in 1..Len(checks) : checks[i] = 0
    /\ (pc # "called" /\ call.raw # "raw_get" /\ is_some(call.options.conditions)) =>
          Len(checks) = 1
    /\ (started # <<>> /\ is_some(result) /\ is_err(unwrap(result))) =>
          "InvalidConditions" \notin Range(unwrap(unwrap(result).err))

C8_Witness ==
    /\ call.api = "compare_and_delete"
    /\ ~EmptyConditions
    /\ Len(started) >= 3
    /\ pc = "done"
    /\ checks = <<0>>

\* C9: InvalidConditions is returned as one error, the same for any number of
\* endpoints: the error list holds exactly that one error, nothing has been
\* accumulated from endpoints, and no endpoint attempt ever yields it.
C9_InvalidConditionsSingleError ==
    /\ (EmptyConditions /\ pc = "done") =>
          /\ result = Some(Err(<<"InvalidConditions">>))
          /\ errors = <<>>
          /\ finished = <<>>
    /\ "InvalidConditions" \notin Range(errors)
    /\ \A j \in 1..Len(finished) :
          is_err(finished[j].res) => unwrap(finished[j].res.err) # "InvalidConditions"

C9_Witness ==
    /\ call.api = "compare_and_delete"
    /\ EmptyConditions
    /\ Len(endpoints) >= 2
    /\ pc = "done"

-----------------------------------------------------------------------------
(* Request construction failures.                                          *)

\* C10 as stated: a failure to build the request URI is not a per-endpoint
\* error: no endpoint is contacted and the caller gets one error.
C10_UriFailureShortCircuits ==
    (pc = "done" /\ \E j \in 1..Len(finished) : UriError(finished[j].res)) =>
        /\ sent = <<>>
        /\ is_err(unwrap(result))
        /\ Len(unwrap(unwrap(result).err)) = 1

\* C10 amended: a failure to build the request URI is the error of the one
\* endpoint attempt it occurs in: no request is sent to that endpoint, the
\* error is pushed on the accumulator in the attempt's place, the call goes on
\* while endpoints remain, and a call that fails returns one error per endpoint.
C10_UriFailurePerEndpoint ==
    /\ \A j \in 1..Len(finished) :
          UriError(finished[j].res) =>
              /\ \A i \in 1..Len(sent) : sent[i].pos # finished[j].pos
              /\ j <= Len(errors)
              /\ errors[j] = unwrap(finished[j].res.err)
              /\ (pc = "done" /\ AllFailed) => Len(finished) = Len(endpoints)
    /\ (Dispatched /\ is_err(unwrap(result))) =>
          Len(unwrap(unwrap(result).err)) = Len(endpoints)

C10_Witness ==
    /\ Dispatched
    /\ Len(endpoints) >= 3
    /\ UriError(finished[1].res)
    /\ Len(sent) >= 1
    /\ is_err(unwrap(result))
    /\ Len(unwrap(unwrap(result).err)) = Len(endpoints)

-----------------------------------------------------------------------------
(* Classification of one response.                                         *)

\* The statuses documented as success for each raw operation.
SuccessStatuses(raw) ==
    CASE raw = "raw_set" -> {200, 201}
      [] raw = "raw_get" -> {200}
      [] raw = "raw_delete" -> {200}

\* The latest attempt was answered with a status and a body that arrived whole.
Answered == is_some(response) /\ unwrap(response).body # "aborted"

LastFinished == finished[Len(finished)]

NotSucceeded == is_some(result) => is_err(unwrap(result))

\* C11: for get, set and delete, a response with a success status of the
\* operation and a body that is not a KeyValueInfo fails the attempt with
\* Serialization: the error pushed is neither a transport error nor is the
\* response taken as a success.
C11_UndecodableSuccessBody ==
    (/\ Answered
     /\ unwrap(response).status \in SuccessStatuses(call.raw)
     /\ unwrap(response).body # "KeyValueInfo")
    => /\ LastFinished.res = Err("Serialization")
       /\ errors # <<>>
       /\ errors[Len(errors)] = "Serialization"
       /\ NotSucceeded

C11_Witness ==
    /\ call.api = "set"
    /\ response = Some([status |-> 201, body |-> "garbage"])
    /\ errors = <<"Serialization">>

\* C12: for get, set and delete, a response with a status that is no success
\* status of the operation fails the attempt with Api carrying the decoded
\* ApiError when the body is one, with Serialization when it is not, and is
\* never a success.
C12_FailureStatusClassified ==
    (/\ Answered
     /\ unwrap(response).status \notin SuccessStatuses(call.raw))
    => /\ LastFinished.res =
            (IF unwrap(response).body = "ApiError"
                THEN Err(Api(unwrap(response).body))
                ELSE Err("Serialization"))
       /\ errors # <<>>
       /\ errors[Len(errors)] = unwrap(LastFinished.res.err)
       /\ NotSucceeded

C12_Witness ==
    /\ call.api = "delete"
    /\ response = Some([status |-> 404, body |-> "ApiError"])
    /\ errors = <<Api("ApiError")>>

\* The original reading of C13: whatever the operation and the status, a
\* response whose body is malformed fails the attempt with Serialization.
C13_MalformedAlwaysSerialization ==
    (Answered /\ unwrap(response).body = "garbage")
    => LastFinished.res = Err("Serialization")

\* The outcome of a malformed body where the operation does not decode it.
StatusAlone(successes) ==
    IF unwrap(response).status \in successes
        THEN is_ok(LastFinished.res)
        ELSE LastFinished.res = Err(UnexpectedStatus(unwrap(response).status))

\* C13: a malformed body yields Serialization wherever the operation decodes
\* the body: always for the key-value operations, members::list and
\* auth::status; only off the success status for members add, delete and
\* update, which succeed on their status alone; only on the success status
\* for the auth user and role reads and writes, which answer any other status
\* with UnexpectedStatus; and never for auth delete_role, delete_user, enable
\* and disable, which decide on the status alone.
C13_MalformedWhereDecoded ==
    (Answered /\ unwrap(response).body = "garbage")
    => CASE call.raw \in {"raw_delete", "raw_get", "raw_set", "members::list",
                           "auth::status"} ->
                LastFinished.res = Err("Serialization")
         [] call.raw = "members::add" ->
                IF unwrap(response).status = 201
                    THEN is_ok(LastFinished.res)
                    ELSE LastFinished.res = Err("Serialization")
         [] call.raw \in {"members::delete", "members::update"} ->
                IF unwrap(response).status = 204
                    THEN is_ok(LastFinished.res)
                    ELSE LastFinished.res = Err("Serialization")
         [] call.raw \in {"auth::create_role", "auth::create_user"} ->
                IF unwrap(response).status \in {200, 201}
                    THEN LastFinished.res = Err("Serialization")
                    ELSE LastFinished.res = Err(UnexpectedStatus(unwrap(response).status))
         [] call.raw \in {"auth::get_role", "auth::get_roles", "auth::get_user",
                           "auth::get_users", "auth::update_role", "auth::update_user"} ->
                IF unwrap(response).status = 200
                    THEN LastFinished.res = Err("Serialization")
                    ELSE LastFinished.res = Err(UnexpectedStatus(unwrap(response).status))
         [] call.raw \in {"auth::delete_role", "auth::delete_user"} -> StatusAlone({200})
         [] call.raw \in {"auth::enable", "auth::disable"} -> StatusAlone({200, 409})

C13_Witness ==
    /\ call.raw = "auth::create_role"
    /\ response = Some([status |-> 201, body |-> "garbage"])
    /\ errors = <<"Serialization">>

\* C14: a 409 answer is a success only for auth enable and disable, where it
\* gives Ok(AuthChange::Unchanged) and 200 gives Ok(AuthChange::Changed); for
\* every other operation a 409 answer fails the attempt.
C14_ConflictOnlyForToggles ==
    is_some(response)
    => /\ unwrap(response).status = 409
          => IF call.raw \in {"auth::enable", "auth::disable"}
                THEN /\ is_ok(LastFinished.res)
                     /\ unwrap(LastFinished.res.item).data = "Unchanged"
                     /\ result = Some(LastFinished.res)
                ELSE /\ is_err(LastFinished.res)
                     /\ NotSucceeded
       /\ (unwrap(response).status = 200 /\ call.raw \in {"auth::enable", "auth::disable"})
          => /\ is_ok(LastFinished.res)
             /\ unwrap(LastFinished.res.item).data = "Changed"

C14_Witness ==
    /\ call.raw = "auth::enable"
    /\ is_some(response)
    /\ unwrap(response).status = 409
    /\ result = Some(Ok(Response("Unchanged", "cluster-1")))

\* The success branch is taken exactly on the given statuses: a body of the
\* success shape is a success on them only, and an ApiError body is an Api
\* error off them only.
SuccessExactlyOn(successes, shape) ==
    /\ unwrap(response).body = shape
       => (is_ok(LastFinished.res) <=> unwrap(response).status \in successes)
    /\ unwrap(response).body = "ApiError"
       => (LastFinished.res = Err(Api("ApiError"))
             <=> unwrap(response).status \notin successes)
    /\ is_ok(LastFinished.res) => unwrap(response).status \in successes

\* C15: set succeeds on exactly 200 and 201, get and watch on exactly 200, and
\* the delete without a body, members::delete, on exactly 204; every other
\* status, another 2xx included, takes the error branch.
C15_SuccessStatusesPerOperation ==
    Answered
    => /\ call.raw = "raw_set" => SuccessExactlyOn({200, 201}, "KeyValueInfo")
       /\ call.raw = "raw_get" => SuccessExactlyOn({200}, "KeyValueInfo")
       /\ call.raw = "members::delete" => SuccessExactlyOn({204}, "")

C15_Witness ==
    /\ call.raw = "members::delete"
    /\ response = Some([status |-> 200, body |-> "ApiError"])
    /\ errors = <<Api("ApiError")>>

-----------------------------------------------------------------------------
(* watch.                                                                  *)

QueryKeys(request, key) == { p \in request.uri.query : p[1] = key }

\* C16: every request of a watch is a GET with wait=true, and it carries
\* waitIndex=i exactly when options.index is Some(i); with no index given it
\* carries no waitIndex parameter.
C16_WatchWaitAndIndex ==
    \A k \in Keys, o \in WatchOptionsSet :
        call = watch(k, o)
        => \A j \in 1..Len(sent) :
              /\ sent[j].request.method = "GET"
              /\ QueryKeys(sent[j].request, "wait") = { <<"wait", "true">> }
              /\ \A i \in 0..9 :
                    o.index = Some(i)
                    <=> <<"waitIndex", u64_to_string(i)>> \in sent[j].request.uri.query
              /\ o.index = None => QueryKeys(sent[j].request, "waitIndex") = {}
              /\ Cardinality(QueryKeys(sent[j].request, "waitIndex")) <= 1

C16_Witness ==
    /\ call.api = "watch"
    /\ call.options.wait_index = Some(7)
    /\ Len(sent) >= 2
    /\ <<"waitIndex", "7">> \in sent[2].request.uri.query

\* C17: when the timer of a watch fires, which it does only while a request
\* is unanswered, watch returns WatchError::Timeout and the work is abandoned:
\* from then on no endpoint is attempted, no request is sent, no response is
\* processed and the returned result does not change.
C17_TimeoutAbandonsWork ==
    [][/\ pc' = "timed_out" => watch_returns' = Some(Err(Timeout))
       /\ (pc # "timed_out" /\ pc' = "timed_out")
          => (is_some(call.timeout) /\ inflight # {} /\ result = None)
       /\ pc = "timed_out"
          => /\ pc' = "timed_out"
             /\ started' = started
             /\ sent' = sent
             /\ finished' = finished
             /\ errors' = errors
             /\ result' = result
             /\ watch_returns' = watch_returns]_vars

\* The timer fired during the first of several attempts and the answer came
\* late.
C17_Witness ==
    /\ pc = "timed_out"
    /\ Len(endpoints) >= 2
    /\ started = <<1>>
    /\ inflight = {}
    /\ finished = <<>>

\* C18: when the work of a watch resolves, watch returns what the dispatcher
\* produced, its Ok value unchanged or its whole error list wrapped as
\* WatchError::Other, the same with and without a timeout.
C18_WatchReturnsDispatcherResult ==
    (call.api = "watch" /\ pc = "done")
    => /\ is_some(result)
       /\ is_ok(unwrap(result)) => watch_returns = result
       /\ is_err(unwrap(result))
          => /\ watch_returns = Some(Err(Other(errors)))
             /\ Len(errors) = Len(endpoints)
             /\ unwrap(unwrap(result).err) = errors

C18_Witness ==
    /\ call.api = "watch"
    /\ is_some(call.timeout)
    /\ pc = "done"
    /\ watch_returns = Some(Err(Other(<<"Http", "Serialization">>)))

\* C19: a watch without a timeout never returns Timeout: it has returned
\* nothing until the dispatch completes and then returns its result.
C19_NoTimeoutNoTimer ==
    (call.api = "watch" /\ call.timeout = None)
    => /\ pc # "timed_out"
       /\ watch_returns # Some(Err(Timeout))
       /\ pc # "done" => watch_returns = None
       /\ pc = "done"
          => watch_returns =
                Some(IF is_ok(unwrap(result)) THEN unwrap(result) ELSE Err(Other(errors)))

\* Waiting on the second endpoint after the first failed.
C19_Witness ==
    /\ call.api = "watch"
    /\ call.timeout = None
    /\ pc = "dispatch"
    /\ inflight = {2}
    /\ watch_returns = None

\* C20: a watch with a timeout always returns in the end, even when no
\* endpoint ever answers: it returns Timeout rather than wait forever.
C20_WatchWithTimeoutResolves ==
    /\ is_some(call.timeout) ~> is_some(watch_returns)
    /\ [](is_some(call.timeout) /\ inflight # {}
            => <>(inflight = {} \/ watch_returns = Some(Err(Timeout))))

\* The first endpoint never answered and the timer ended the watch.
C20_Witness ==
    /\ is_some(call.timeout)
    /\ pc = "timed_out"
    /\ watch_returns = Some(Err(Timeout))
    /\ inflight = {1}
    /\ finished = <<>>

\* watch is Waiting while it has returned nothing and Resolved once it has.
Resolved == is_some(watch_returns)

\* C21: a watch is Waiting or Resolved; when Resolved its outcome is a
\* success, the dispatcher's errors or Timeout, and from then on it stays
\* Resolved with the same outcome.
C21_ResolvedIsTerminal ==
    [][/\ Resolved'
          => \/ is_ok(unwrap(watch_returns'))
             \/ /\ is_err(unwrap(watch_returns'))
                /\ unwrap(unwrap(watch_returns').err).kind \in {"Other", "Timeout"}
       /\ Resolved => watch_returns' = watch_returns]_vars

\* Resolved with a success on the second endpoint, the timer armed, the
\* first answer having been an error.
C21_Witness ==
    /\ is_some(call.timeout)
    /\ Len(finished) = 2
    /\ Resolved
    /\ is_ok(unwrap(watch_returns))

\* C22: a watch whose index the server rejects only surfaces the error: every
\* request of the call is its long-poll get, with wait=true and the index it
\* was given, sent at most once to each attempted endpoint, and the rejection
\* ends up in the error list that watch returns.
C22_WatchOnlySurfaces ==
    /\ Len(sent) <= Len(started)
    /\ \A j \in 1..Len(sent) :
          /\ sent[j].request.method = "GET"
          /\ sent[j].request.body = None
          /\ sent[j].request.uri.url = endpoints[sent[j].pos] \o "v2/keys" \o call.key
          /\ QueryKeys(sent[j].request, "wait") = { <<"wait", "true">> }
          /\ QueryKeys(sent[j].request, "waitIndex") =
                (IF is_some(call.options.wait_index)
                    THEN { <<"waitIndex", u64_to_string(unwrap(call.options.wait_index))>> }
                    ELSE {})
          /\ \A i \in 1..Len(sent) : sent[i].pos = sent[j].pos => i = j
    /\ \A j \in 1..Len(finished) :
          finished[j].res = Err(Api("ApiError"))
          => /\ j <= Len(errors)
             /\ errors[j] = Api("ApiError")
             /\ (Resolved /\ pc = "done")
                => (is_ok(unwrap(watch_returns))
                    \/ watch_returns = Some(Err(Other(errors))))

\* Two endpoints rejected the index and watch returned both rejections.
C22_Witness ==
    /\ call.options.wait_index = Some(7)
    /\ Len(endpoints) = 2
    /\ Len(sent) = 2
    /\ watch_returns = Some(Err(Other(<<Api("ApiError"), Api("ApiError")>>)))

-----------------------------------------------------------------------------
(* The requests of the key-value operations.                               *)

\* The form field of an option: one pair when it is present, none when not.
Field(name, option, string) == IF is_some(option) THEN << <<name, string>> >> ELSE <<>>

\* The fields of the present options of a set, in the documented order.
SetFields(o) ==
    Field("value", o.value, IF is_some(o.value) THEN unwrap(o.value) ELSE "")
    \o Field("ttl", o.ttl, IF is_some(o.ttl) THEN u64_to_string(unwrap(o.ttl)) ELSE "")
    \o Field("dir", o.dir, IF is_some(o.dir) THEN bool_to_string(unwrap(o.dir)) ELSE "")
    \o Field("prevExist", o.prev_exist,
             IF is_some(o.prev_exist) THEN bool_to_string(unwrap(o.prev_exist)) ELSE "")
    \o (IF is_some(o.conditions)
           THEN Field("prevIndex", unwrap(o.conditions).modified_index,
                      IF is_some(unwrap(o.conditions).modified_index)
                         THEN u64_to_string(unwrap(unwrap(o.conditions).modified_index))
                         ELSE "")
                \o Field("prevValue", unwrap(o.conditions).value,
                         IF is_some(unwrap(o.conditions).value)
                            THEN unwrap(unwrap(o.conditions).value) ELSE "")
           ELSE <<>>)

\* C23: on every endpoint attempt a set is sent with POST when create_in_order
\* is true and with PUT when it is not, and the body of an ordered creation
\* holds the value and the ttl only: create_in_order adds no field.
C23_VerbForCreateInOrder ==
    call.raw = "raw_set"
    => \A j \in 1..Len(sent) :
          /\ sent[j].request.method = "POST" <=> call.options.create_in_order
          /\ sent[j].request.method = "PUT" <=> ~call.options.create_in_order
          /\ call.api = "create_in_order"
             => sent[j].request.body =
                   Some("value=" \o unwrap(call.options.value)
                        \o (IF is_some(call.options.ttl)
                               THEN "&ttl=" \o u64_to_string(unwrap(call.options.ttl))
                               ELSE ""))

C23_Witness ==
    /\ call.api = "create_in_order"
    /\ Len(sent) = 2
    /\ sent[1].request.method = "POST"
    /\ sent[2].request.method = "POST"
    /\ sent[2].request.body = Some("value=x&ttl=5")

\* C24: the form body of a set request has one field for each option that is
\* present among value, ttl, dir, prevExist, prevIndex and prevValue, and no
\* field for an absent one.
C24_SetBodyFields ==
    call.raw = "raw_set"
    => \A j \in 1..Len(sent) :
          /\ sent[j].request.body = Some(form_urlencoded(SetFields(call.options)))
          /\ sent[j].request.content_type = Some("application/x-www-form-urlencoded")
          /\ sent[j].request.uri.query = {}

C24_Witness ==
    /\ call.api = "update"
    /\ Len(sent) >= 1
    /\ sent[1].request.body = Some("value=x&prevExist=true")

\* The query parameter of an option: one pair when it is present, none when not.
Param(name, option, string) == IF is_some(option) THEN { <<name, string>> } ELSE {}

QueryNames == {"recursive", "sorted", "wait", "waitIndex", "prevIndex", "prevValue", "dir"}

\* The parameters of the present options of a get: recursive is a plain
\* boolean and is always present, wait is present when it is true.
GetParams(o) ==
    { <<"recursive", bool_to_string(o.recursive)>> }
    \cup Param("sorted", o.sort, IF is_some(o.sort) THEN bool_to_string(unwrap(o.sort)) ELSE "")
    \cup (IF o.wait THEN { <<"wait", "true">> } ELSE {})
    \cup Param("waitIndex", o.wait_index,
               IF is_some(o.wait_index) THEN u64_to_string(unwrap(o.wait_index)) ELSE "")

\* The condition parameters of a delete or the condition fields of a set.
ConditionParams(conditions) ==
    Param("prevIndex", conditions.modified_index,
          IF is_some(conditions.modified_index)
             THEN u64_to_string(unwrap(conditions.modified_index)) ELSE "")
    \cup Param("prevValue", conditions.value,
               IF is_some(conditions.value) THEN unwrap(conditions.value) ELSE "")

\* The parameters of the present options of a delete.
DeleteParams(o) ==
    Param("recursive", o.recursive,
          IF is_some(o.recursive) THEN bool_to_string(unwrap(o.recursive)) ELSE "")
    \cup Param("dir", o.dir, IF is_some(o.dir) THEN bool_to_string(unwrap(o.dir)) ELSE "")
    \cup (IF is_some(o.conditions) THEN ConditionParams(unwrap(o.conditions)) ELSE {})

\* C25: the query of a get or delete request has exactly one parameter for
\* each option that is present and none for an absent one; wait is there only
\* when wait is true and waitIndex only when an index is given; the request
\* has no body.
C25_QueryOnePerPresentOption ==
    call.raw \in {"raw_get", "raw_delete"}
    => \A j \in 1..Len(sent) :
          /\ sent[j].request.uri.query =
                (IF call.raw = "raw_get"
                    THEN GetParams(call.options) ELSE DeleteParams(call.options))
          /\ \A p \in sent[j].request.uri.query : p[1] \in QueryNames
          /\ \A n \in QueryNames : Cardinality(QueryKeys(sent[j].request, n)) <= 1
          /\ QueryKeys(sent[j].request, "wait") # {}
             => (call.raw = "raw_get" /\ call.options.wait)
          /\ QueryKeys(sent[j].request, "waitIndex") # {}
             => (call.raw = "raw_get" /\ is_some(call.options.wait_index))
          /\ sent[j].request.body = None

C25_Witness ==
    /\ call.api = "get"
    /\ Len(sent) = 2
    /\ sent[2].request.uri.query = { <<"recursive", "true">>, <<"sorted", "false">> }

\* C26: a get with strong_consistency = true sends a request that differs
\* from the request of the same get with strong_consistency = false.
C26_StrongConsistencyChangesRequest ==
    \A k \in Keys, o \in GetOptionsSet :
        (call = get(k, o) /\ o.strong_consistency)
        => \A j \in 1..Len(sent) :
              sent[j].request #
                 closure_request(endpoints[sent[j].pos],
                                 get(k, [o EXCEPT !.strong_consistency = FALSE]))

\* The requests of the ordinary deletes of a key.
OrdinaryDeletes(endpoint, k) ==
    { closure_request(endpoint, c) : c \in { delete(k, TRUE), delete(k, FALSE), delete_dir(k) } }

\* The text the condition fields add to the body of a set.
ConditionFields(cv, mi) ==
    (IF is_some(mi) THEN "&prevIndex=" \o u64_to_string(unwrap(mi)) ELSE "")
    \o (IF is_some(cv) THEN "&prevValue=" \o unwrap(cv) ELSE "")

\* A compare_and_swap request is the request of the set of the same key and
\* value with the condition fields added.
SwapIsSetPlusConditions ==
    \A k \in Keys, v \in Values, cv \in CurrentValues, mi \in ModifiedIndexes :
        (call = compare_and_swap(k, v, None, cv, mi) /\ (is_some(cv) \/ is_some(mi)))
        => \A j \in 1..Len(sent) :
              sent[j].request =
                 [closure_request(endpoints[sent[j].pos], set(k, v, None))
                    EXCEPT !.body = Some(unwrap(@) \o ConditionFields(cv, mi))]

\* The original reading of C27: a compare_and_delete request is the request
\* of an ordinary delete of the key with the condition parameters added, and
\* a compare_and_swap request that of the set with the condition fields added.
C27_ConditionalIsOrdinaryPlusConditions ==
    /\ SwapIsSetPlusConditions
    /\ \A k \in Keys, cv \in CurrentValues, mi \in ModifiedIndexes :
          (call = compare_and_delete(k, cv, mi) /\ (is_some(cv) \/ is_some(mi)))
          => \A j \in 1..Len(sent) :
                \E base \in OrdinaryDeletes(endpoints[sent[j].pos], k) :
                    sent[j].request =
                       [base EXCEPT !.uri.query =
                          @ \cup ConditionParams(ComparisonConditions(cv, mi))]

\* C27: compare_and_swap and compare_and_delete go through raw_set and
\* raw_delete: with a non-empty condition the swap request is the set request
\* with prevIndex and prevValue added for the conditions given, the delete
\* request is a DELETE of the key whose only parameters are prevIndex and
\* prevValue for the conditions given (no recursive, no dir), each endpoint
\* gets that single request, and the answer is classified as for set and
\* delete.
C27_ConditionalSamePipeline ==
    /\ SwapIsSetPlusConditions
    /\ \A k \in Keys, cv \in CurrentValues, mi \in ModifiedIndexes :
          (call = compare_and_delete(k, cv, mi) /\ (is_some(cv) \/ is_some(mi)))
          => \A j \in 1..Len(sent) :
                /\ sent[j].request.method = "DELETE"
                /\ sent[j].request.body = None
                /\ sent[j].request.uri.url = endpoints[sent[j].pos] \o "v2/keys" \o k
                /\ sent[j].request.uri.query = ConditionParams(ComparisonConditions(cv, mi))
    /\ call.api \in {"compare_and_swap", "compare_and_delete"}
       => /\ \A i, j \in 1..Len(sent) : sent[i].pos = sent[j].pos => i = j
          /\ Answered
             => IF /\ unwrap(response).status \in SuccessStatuses(call.raw)
                   /\ unwrap(response).body = "KeyValueInfo"
                   THEN is_ok(LastFinished.res)
                   ELSE LastFinished.res \in {Err("Serialization"), Err(Api("ApiError"))}

C27_Witness ==
    /\ call.api = "compare_and_delete"
    /\ Len(sent) = 2
    /\ sent[2].request.uri.query = { <<"prevIndex", "7">>, <<"prevValue", "y">> }
    /\ response = Some([status |-> 200, body |-> "KeyValueInfo"])

\* C28: at every moment at most one request of the call is in flight: a
\* request is only issued when none is outstanding, it is then the only one
\* outstanding, and a request to endpoint k + 1 is issued only after the
\* attempt on endpoint k has completed.
C28_OneRequestInFlight ==
    [][/\ Cardinality(inflight') <= 1
       /\ Len(sent') > Len(sent)
          => /\ inflight = {}
             /\ inflight' = { sent'[Len(sent')].pos }
             /\ \A k \in 1..(sent'[Len(sent')].pos - 1) : FinishedAt(k) # {}]_vars

C28_Witness ==
    /\ Len(endpoints) = 2
    /\ Len(sent) = 2
    /\ inflight = {2}
    /\ FinishedAt(1) # {}
    /\ finished[1].res = Err("Http")

\* The calls that change the store.
Mutating == call.raw \in {"raw_set", "raw_delete"}

\* C29: within one mutating call, once an endpoint has answered the request
\* with a success status the request is not sent to any later endpoint.
C29_NoResendAfterAccept ==
    [][(/\ Mutating
        /\ is_some(response)
        /\ unwrap(response).status \in SuccessStatuses(call.raw))
       => sent' = sent]_vars

\* What first_ok makes of the outcomes of the attempts, taken in order.
RECURSIVE Outcome(_, _, _)
Outcome(outcomes, i, errs) ==
    IF i > Len(outcomes) THEN Err(errs)
    ELSE IF is_ok(outcomes[i].res) THEN Ok(unwrap(outcomes[i].res.item))
    ELSE Outcome(outcomes, i + 1, Append(errs, unwrap(outcomes[i].res.err)))

\* C30: the dispatcher is deterministic: the endpoints attempted, their
\* order and the result are a function of the endpoint list and of the
\* outcomes of the attempts: the attempts are the positions 1, 2, ... up to
\* the first Ok or the end of the list, and the result is Ok of that value or
\* Err of the errors in that order.
C30_Deterministic ==
    /\ started = [j \in 1..Len(started) |-> j]
    /\ \A j \in 1..Len(finished) : finished[j].pos = j
    /\ Dispatched
       => /\ Len(started) = Len(finished)
          /\ \/ Len(finished) = Len(endpoints)
             \/ is_ok(LastFinished.res)
          /\ \A j \in 1..(Len(finished) - 1) : is_err(finished[j].res)
          /\ result = Some(Outcome(finished, 1, <<>>))

C30_Witness ==
    /\ Dispatched
    /\ Len(endpoints) = 2
    /\ started = <<1, 2>>
    /\ finished[1].res = Err("Serialization")
    /\ is_ok(finished[2].res)
    /\ result = Some(Ok(unwrap(finished[2].res.item)))

-----------------------------------------------------------------------------
(* Two calls on one client.                                                *)

MaxConcurrentEndpoints == 2

\* The state one call owns: the copy of its arguments, the position in its
\* function, and the locals of its first_future_ok (the iterator over its own
\* copy of the endpoint list, the errors vector), with the call's history.
PerCall ==
    [call |-> call, pc |-> pc, next |-> next, inflight |-> inflight,
     response |-> response, errors |-> errors, result |-> result,
     started |-> started, finished |-> finished, sent |-> sent, checks |-> checks]

ConcurrentInit ==
    /\ endpoints = [i \in 1..MaxConcurrentEndpoints |-> Member(i)]
    /\ call = set("/foo", "x", None)
    /\ pc = "called"
    /\ next = 1
    /\ inflight = {}
    /\ response = None
    /\ errors = <<>>
    /\ result = None
    /\ started = <<>>
    /\ finished = <<>>
    /\ sent = <<>>
    /\ checks = <<>>
    /\ basic_auth = None
    /\ suspended = Some(PerCall)
    /\ clock = <<>>

\* An executor that keeps one errors vector for all the calls of a client.
SwitchSharedErrors ==
    /\ is_some(suspended)
    /\ suspended' = Some(PerCall)
    /\ call' = unwrap(suspended).call
    /\ pc' = unwrap(suspended).pc
    /\ next' = unwrap(suspended).next
    /\ inflight' = unwrap(suspended).inflight
    /\ response' = unwrap(suspended).response
    /\ result' = unwrap(suspended).result
    /\ started' = unwrap(suspended).started
    /\ finished' = unwrap(suspended).finished
    /\ sent' = unwrap(suspended).sent
    /\ checks' = unwrap(suspended).checks
    /\ UNCHANGED <<clock, basic_auth, endpoints, errors>>

\* The executor goes from the future of one call to the future of the other:
\* each future carries its own state, the client is borrowed by both and is
\* not written.
Switch ==
    /\ is_some(suspended)
    /\ suspended' = Some(PerCall)
    /\ call' = unwrap(suspended).call
    /\ pc' = unwrap(suspended).pc
    /\ next' = unwrap(suspended).next
    /\ inflight' = unwrap(suspended).inflight
    /\ response' = unwrap(suspended).response
    /\ errors' = unwrap(suspended).errors
    /\ result' = unwrap(suspended).result
    /\ started' = unwrap(suspended).started
    /\ finished' = unwrap(suspended).finished
    /\ sent' = unwrap(suspended).sent
    /\ checks' = unwrap(suspended).checks
    /\ UNCHANGED <<clock, basic_auth, endpoints>>

ConcurrentNext ==
    \/ raw_set
    \/ \E k \in 1..MaxConcurrentEndpoints + 1 : Attempt(k)
    \/ \E k \in 1..MaxConcurrentEndpoints + 1 : TransportError(k)
    \/ \E k \in 1..MaxConcurrentEndpoints + 1 : Respond(k)
    \/ Exhausted
    \/ Switch

ConcurrentSpec == ConcurrentInit /\ [][ConcurrentNext]_vars

\* The errors of the failed attempts among the outcomes, in order.
RECURSIVE ErrorsOf(_)
ErrorsOf(outcomes) ==
    IF outcomes = <<>> THEN <<>>
    ELSE IF is_err(outcomes[Len(outcomes)].res)
       THEN Append(ErrorsOf(SubSeq(outcomes, 1, Len(outcomes) - 1)),
                   unwrap(outcomes[Len(outcomes)].res.err))
       ELSE ErrorsOf(SubSeq(outcomes, 1, Len(outcomes) - 1))

\* A call goes through the endpoint list in order and what it has gathered
\* and returned comes from the outcomes of its own attempts.
OwnOutcomeOnly(c) ==
    /\ c.started = [j \in 1..Len(c.started) |-> j]
    /\ \A j \in 1..Len(c.sent) :
          c.sent[j].request = closure_request(endpoints[c.sent[j].pos], c.call)
    /\ \A j \in 1..Len(c.finished) : c.finished[j].pos = j
    /\ c.errors = ErrorsOf(c.finished)
    /\ c.pc = "done"
       => /\ Len(c.started) = Len(c.finished)
          /\ \/ Len(c.finished) = Len(endpoints)
             \/ is_ok(c.finished[Len(c.finished)].res)
          /\ c.result = Some(Outcome(c.finished, 1, <<>>))

\* C31: two calls on one client do not interfere: no step of either changes
\* the endpoint list or the credentials of the client, a step of one call
\* leaves the state of the other as it was, and under every interleaving each
\* call attempts the endpoints in list order to the end of the list or its
\* first Ok and returns what its own attempts gave.
C31_ConcurrentCallsIndependent ==
    [][/\ endpoints' = endpoints
       /\ basic_auth' = basic_auth
       /\ \/ suspended' = suspended
          \/ suspended' = Some(PerCall) /\ PerCall' = unwrap(suspended)
       /\ OwnOutcomeOnly(PerCall')
       /\ OwnOutcomeOnly(unwrap(suspended'))]_vars

C31_Witness ==
    /\ is_some(suspended)
    /\ pc = "done"
    /\ unwrap(suspended).pc = "done"
    /\ Len(endpoints) = 2
    /\ Len(finished) = 2
    /\ errors = <<"Http">>
    /\ is_ok(unwrap(result))
    /\ unwrap(suspended).result = Some(Err(<<Api("ApiError"), "Serialization">>))

\* C32: cluster metadata does not affect control flow: had the answer to the
\* latest attempt come with any other headers, the attempt would have ended
\* the same way (Ok or the same error), the value differing only in the
\* cluster_info attached; and whether the call goes on depends on that
\* outcome alone.
C32_ClusterInfoNoControlFlow ==
    (is_some(response) /\ pc \in {"dispatch", "done"})
    => /\ \A cluster_info \in ClusterInfos :
             LET other == closure_classify(call.raw, unwrap(response).status, cluster_info,
                                           unwrap(response).body)
             IN  /\ other.tag = LastFinished.res.tag
                 /\ other.err = LastFinished.res.err
                 /\ is_ok(other)
                    => /\ unwrap(other.item).data = unwrap(LastFinished.res.item).data
                       /\ unwrap(other.item).cluster_info = cluster_info
       /\ is_ok(LastFinished.res) => pc = "done" /\ result = Some(LastFinished.res)
       /\ is_err(LastFinished.res)
          => /\ errors[Len(errors)] = unwrap(LastFinished.res.err)
             /\ pc = "done" => next > Len(endpoints)

C32_Witness ==
    /\ call.api = "get"
    /\ Len(finished) = 2
    /\ finished[1].res = Err(Api("ApiError"))
    /\ is_ok(finished[2].res)
    /\ unwrap(finished[2].res.item).cluster_info = "cluster-2"
    /\ pc = "done"

\* C33: a get, set or delete that fails after validation reports every
\* member: the error list has one entry per configured endpoint, entry k
\* being the error of the attempt on endpoint k, and no error is returned
\* while an endpoint is still untried.
C33_FailureListsEveryMember ==
    (/\ call.raw \in {"raw_get", "raw_set", "raw_delete"}
     /\ call.api # "watch"
     /\ ~EmptyConditions
     /\ is_some(result)
     /\ is_err(unwrap(result)))
    => /\ next > Len(endpoints)
       /\ Len(started) = Len(endpoints)
       /\ Len(finished) = Len(endpoints)
       /\ Len(unwrap(unwrap(result).err)) = Len(endpoints)
       /\ \A k \in 1..Len(endpoints) :
             /\ finished[k].pos = k
             /\ is_err(finished[k].res)
             /\ unwrap(unwrap(result).err)[k] = unwrap(finished[k].res.err)

C33_Witness ==
    /\ call.api = "delete"
    /\ Len(endpoints) = 2
    /\ result = Some(Err(<<"Http", Api("ApiError")>>))

\* C34: every request of every attempt, whatever its method, carries the
\* Authorization header "Basic " followed by the base64 of username:password
\* exactly when the client was constructed with credentials, and no
\* Authorization header otherwise.
C34_BasicAuthOnEveryRequest ==
    \A j \in 1..Len(sent) :
        /\ sent[j].request.method \in {"GET", "DELETE", "PUT", "POST"}
        /\ is_some(sent[j].authorization) <=> is_some(basic_auth)
        /\ basic_auth = Some([username |-> "root", password |-> "secret"])
           => sent[j].authorization = Some("Basic cm9vdDpzZWNyZXQ=")

C34_Witness ==
    /\ is_some(basic_auth)
    /\ Len(sent) = 2
    /\ sent[1].request.method = "POST"
    /\ sent[2].request.method = "POST"
    /\ sent[2].authorization = Some("Basic cm9vdDpzZWNyZXQ=")

\* The kinds of error one attempt can end with.
ErrorKinds ==
    {"Http", "InvalidUrl", "InvalidUri", "Serialization", Api("ApiError")}
    \cup { UnexpectedStatus(status) : status \in Statuses }

\* C35: a structured API error does not stop failover: an attempt that ends
\* with an error of whatever kind, Api included, only appends that error to
\* the errors; the call goes on, nothing is returned, and when an endpoint
\* follows, the loop is ready to call it next.
C35_ApiErrorFailsOver ==
    [][(/\ pc = "dispatch"
        /\ Len(finished') = Len(finished) + 1
        /\ is_err(finished'[Len(finished')].res))
       => /\ unwrap(finished'[Len(finished')].res.err) \in ErrorKinds
          /\ errors' = Append(errors, unwrap(finished'[Len(finished')].res.err))
          /\ pc' = "dispatch"
          /\ result' = None
          /\ inflight' = {}
          /\ next' = finished'[Len(finished')].pos + 1]_vars

C35_Witness ==
    /\ call.api = "compare_and_swap"
    /\ Len(endpoints) = 2
    /\ Len(finished) = 2
    /\ finished[1].res = Err(Api("ApiError"))
    /\ Len(sent) = 2
    /\ sent[2].pos = 2
    /\ is_ok(finished[2].res)

\* The paths a request of the call can have after the endpoint.
Paths ==
    { "v2/keys" \o c.key : c \in Calls }
    \cup { "v2/auth" \o c.key : c \in AuthCalls }
    \cup { "v2/members" \o c.key : c \in MembersCalls }

\* C36: the requests one call sends to its endpoints differ in the endpoint
\* only: there is one path that follows the endpoint in every URL, and method,
\* query parameters, body and headers are the same on every attempt, whatever
\* became of the attempts before.
C36_SameRequestEveryEndpoint ==
    /\ \E path \in Paths :
          \A j \in 1..Len(sent) :
              sent[j].request.uri.url = endpoints[sent[j].pos] \o path
    /\ \A i, j \in 1..Len(sent) :
          /\ sent[i].request.method = sent[j].request.method
          /\ sent[i].request.uri.query = sent[j].request.uri.query
          /\ sent[i].request.body = sent[j].request.body
          /\ sent[i].request.content_type = sent[j].request.content_type
          /\ sent[i].authorization = sent[j].authorization

C36_Witness ==
    /\ call.api = "compare_and_swap"
    /\ Len(finished) = 1
    /\ finished[1].res = Err(Api("ApiError"))
    /\ Len(sent) = 2
    /\ sent[1].request.uri.url = "http://etcd2:2379/v2/keys/foo"
    /\ sent[2].request.uri.url = "http://etcd1:2379/v2/keys/foo"
    /\ sent[2].request.body = Some("value=x&prevIndex=7&prevValue=y")

-----------------------------------------------------------------------------
(* The watch timeout with time.                                            *)

TimedWatchInit ==
    /\ endpoints \in EndpointLists
    /\ call \in { c \in WatchCalls : is_some(c.timeout) }
    /\ pc = "called"
    /\ next = 1
    /\ inflight = {}
    /\ response = None
    /\ errors = <<>>
    /\ result = None
    /\ started = <<>>
    /\ finished = <<>>
    /\ sent = <<>>
    /\ checks = <<>>
    /\ basic_auth = None
    /\ suspended = None
    /\ clock = <<>>

TimedWatchNext ==
    \/ raw_get
    \/ \E k \in 1..MaxEndpoints + 1 : Attempt(k)
    \/ \E k \in 1..MaxEndpoints + 1 : TransportError(k)
    \/ \E k \in 1..MaxEndpoints + 1 : Respond(k)
    \/ Exhausted
    \/ Tick
    \/ Deadline
    \/ \E k \in 1..MaxEndpoints + 1 : LateResponse(k)

TimedWatchSpec == TimedWatchInit /\ [][TimedWatchNext]_vars

\* C37: the timeout of watch is one timer for the whole call: the time of all
\* the attempts together never exceeds the timeout while the call is running,
\* the call times out when the attempts together have lasted the timeout,
\* whatever each of them lasted, watch then returns Timeout, and no endpoint
\* is attempted after that.
C37_OneTimerForTheCall ==
    [][/\ Len(clock') <= TimeoutTicks
       /\ pc' = "timed_out"
          => /\ Len(clock') = TimeoutTicks
             /\ watch_returns' = Some(Err(Timeout))
       /\ pc = "timed_out"
          => /\ pc' = "timed_out"
             /\ started' = started
             /\ sent' = sent]_vars

C37_Witness ==
    /\ pc = "timed_out"
    /\ Len(endpoints) >= 3
    /\ clock = <<1, 2>>
    /\ Len(started) = 2
    /\ inflight = {}
    /\ watch_returns = Some(Err(Timeout))

\* The bodies a write of each flavour may send, for the value x, the ttl 5
\* and the conditions 7 and y, written out.
FlavourBodies(api) ==
    CASE api = "create" -> {"value=x&prevExist=false", "value=x&ttl=5&prevExist=false"}
      [] api = "create_dir" -> {"dir=true&prevExist=false", "ttl=5&dir=true&prevExist=false"}
      [] api = "update" -> {"value=x&prevExist=true", "value=x&ttl=5&prevExist=true"}
      [] api = "update_dir" -> {"dir=true&prevExist=true", "ttl=5&dir=true&prevExist=true"}
      [] api \in {"set", "create_in_order"} -> {"value=x", "value=x&ttl=5"}
      [] api = "set_dir" -> {"dir=true", "ttl=5&dir=true"}
      [] api = "compare_and_swap" ->
            {"value=x&prevIndex=7", "value=x&prevValue=y", "value=x&prevIndex=7&prevValue=y"}

\* C38: prevExist tells the flavour of a write: create and create_dir send
\* prevExist=false, update and update_dir prevExist=true, set, set_dir,
\* create_in_order and compare_and_swap send no prevExist; the _dir variants
\* send dir=true and no value.
C38_PrevExistByFlavour ==
    call.raw = "raw_set"
    => \A j \in 1..Len(sent) :
          /\ is_some(sent[j].request.body)
          /\ unwrap(sent[j].request.body) \in FlavourBodies(call.api)
          /\ sent[j].request.uri.query = {}

C38_Witness ==
    /\ call.api = "update_dir"
    /\ Len(sent) = 2
    /\ sent[2].request.body = Some("dir=true&prevExist=true")

\* The auth operations on users and roles, with the statuses each takes for
\* success.
UserRoleSuccesses(raw) ==
    CASE raw \in {"auth::create_role", "auth::create_user"} -> {200, 201}
      [] raw \in {"auth::delete_role", "auth::delete_user", "auth::get_role",
                  "auth::get_roles", "auth::get_user", "auth::get_users",
                  "auth::update_role", "auth::update_user"} -> {200}
      [] OTHER -> {}

\* C39: no attempt of a key-value call ends with UnexpectedStatus: its error
\* is a transport or URL error, Serialization or Api; an attempt of an auth
\* operation on users or roles never ends with Api, and when it is answered
\* with a status that is not a success status of the operation it ends with
\* UnexpectedStatus of that status, whatever the body holds.
C39_UnexpectedStatusOnlyInAuth ==
    /\ call.raw \in {"raw_get", "raw_set", "raw_delete"}
       => \A j \in 1..Len(finished) :
             is_err(finished[j].res)
             => unwrap(finished[j].res.err) \in
                   {"Http", "InvalidUrl", "InvalidUri", "Serialization", Api("ApiError")}
    /\ UserRoleSuccesses(call.raw) # {}
       => /\ \A j \in 1..Len(finished) : finished[j].res # Err(Api("ApiError"))
          /\ (Answered /\ unwrap(response).status \notin UserRoleSuccesses(call.raw))
             => LastFinished.res = Err(UnexpectedStatus(unwrap(response).status))

C39_Witness ==
    /\ call.raw = "auth::get_user"
    /\ response = Some([status |-> 404, body |-> "ApiError"])
    /\ Len(finished) = 2
    /\ finished[1].res = Err("UnexpectedStatus: 409")
    /\ finished[2].res = Err("UnexpectedStatus: 404")

-----------------------------------------------------------------------------
(* Calls whose attempts all terminate.                                     *)

DispatchInit ==
    /\ endpoints \in { e \in EndpointLists : Len(e) <= MaxClientEndpoints }
    /\ call \in { c \in ClientCalls : is_none(c.timeout) }
    /\ pc = "called"
    /\ next = 1
    /\ inflight = {}
    /\ response = None
    /\ errors = <<>>
    /\ result = None
    /\ started = <<>>
    /\ finished = <<>>
    /\ sent = <<>>
    /\ checks = <<>>
    /\ basic_auth = None
    /\ suspended = None
    /\ clock = <<>>

\* The steps the future of the call takes by itself when it is polled.
CallStep ==
    \/ raw_delete
    \/ raw_get
    \/ raw_set
    \/ auth_op
    \/ members_op
    \/ \E k \in 1..MaxClientEndpoints + 1 : Attempt(k)
    \/ Exhausted

\* The request in flight ends, with an answer or with a transport error.
AttemptEnds ==
    \/ \E k \in 1..MaxClientEndpoints + 1 : TransportError(k)
    \/ \E k \in 1..MaxClientEndpoints + 1 : Respond(k)

DispatchNext == CallStep \/ AttemptEnds

\* The call is awaited, so its future is polled whenever it can go on, and
\* every attempt terminates.
DispatchSpec ==
    /\ DispatchInit
    /\ [][DispatchNext]_vars
    /\ WF_vars(CallStep)
    /\ WF_vars(AttemptEnds)

\* C40: when every attempt terminates, the call terminates with Ok or Err
\* after at most one attempt per endpoint, and never goes back to an endpoint
\* before the one it attempted last.
C40_DispatchTerminates ==
    /\ <>(/\ pc = "done"
          /\ is_some(result)
          /\ unwrap(result).tag \in {"Ok", "Err"}
          /\ inflight = {})
    /\ [](/\ Len(started) <= Len(endpoints)
          /\ \A i, j \in 1..Len(started) : i < j => started[i] < started[j])

C40_Witness ==
    /\ pc = "done"
    /\ call.api = "set"
    /\ Len(endpoints) = 2
    /\ started = <<1, 2>>
    /\ is_some(result)
    /\ is_err(unwrap(result))
    /\ Len(unwrap(unwrap(result).err)) = 2

====
